---------------------------- MODULE Spec2Model ----------------------------
(***************************************************************************)
(* The url data cache (udc) of rtracklayer's bundled UCSC library: a       *)
(* sparse local data file plus a bitmap with one bit per block, filled by  *)
(* reads through the cache controller.  The bit vector operations are      *)
(* those of src/ucsc/bits.c; the controller (udc.c) is declared in udc.h   *)
(* and described in the design document, and is modelled from those.       *)
(***************************************************************************)
EXTENDS Integers, Sequences, FiniteSets, TLC

VARIABLES
    now,                 \* wall clock, in seconds
    origin,              \* the remote source: [size, modTime]
    changes,             \* how often the origin has changed so far
    blockSize,           \* the configured bytes per block
    cacheExists,         \* the bitmap and sparseData files exist
    hdr,                 \* bitmap file header: [magic, version, blockSize,
                         \* remoteModTime, remoteSize]
    bits,                \* bitmap file: the packed bit array (Bits *), one byte per element
    data,                \* sparseData file, one byte per element, 0 where never written
    lastStaleCheckTime,  \* when the origin was last asked for size and time
    active,              \* the processes that use the cache directory
    h,                   \* per process: the udcFile handle, the position in the call
                         \* in progress and, until it returns, what it did
    fetchCount,          \* per block: fetchRange calls since (re)creation, while no
                         \* Read was aborted
    aborted,             \* a Read was aborted by a failure since (re)creation
    logging,             \* whether completed Reads are appended to readLog
    readLog,             \* the first Reads completed, while logging
    bitsInByte,          \* bits.c: int bitsInByte[256], element v + 1 is for byte v
    inittedBitsInByte,   \* bits.c: static boolean inittedBitsInByte
    vec,                 \* a bit vector used directly through bits.h:
                         \* [n, b, ref, sets], b the Bits * of n bits
    list,                \* a list of struct fileOffsetSize, in list order
    cacheDir,            \* the entries under a cache root, for udcCleanup:
                         \* per entry [present, used, size]
    th,                  \* a TrackHub object: its fields
    lf,                  \* a struct lineFile, with the file behind its fd
    call                 \* the last library call made directly: its arguments
                         \* and what it returned

udcVars == <<now, origin, changes, blockSize, cacheExists, hdr, bits, data,
             lastStaleCheckTime, active, h, fetchCount, aborted, logging, readLog>>

\* what the calls on bit vectors and extent lists leave alone
otherVars == <<cacheDir, th, lf>>

libVars == <<bitsInByte, inittedBitsInByte, vec, list, otherVars, call>>

vars == <<udcVars, libVars>>

----------------------------------------------------------------------------
(* Bounds of the model *)

SmallBlockSize == 2
MaxSize == 5
MaxTime == 3
MaxChanges == 1
MaxLog == 3
CacheTimeout == 1

(* Program constants *)

udcBlockSize == 8192

Procs == {1, 2}

Min(a, b) == IF a < b THEN a ELSE b

----------------------------------------------------------------------------
(* bits.c *)

oneBit == <<128, 64, 32, 16, 8, 4, 2, 1>>
leftMask == <<255, 127, 63, 31, 15, 7, 3, 1>>
rightMask == <<128, 192, 224, 240, 248, 252, 254, 255>>

RECURSIVE BitAnd(_, _)
BitAnd(a, b) ==
    IF a = 0 \/ b = 0 THEN 0
    ELSE 2 * BitAnd(a \div 2, b \div 2) + (IF a % 2 = 1 /\ b % 2 = 1 THEN 1 ELSE 0)

RECURSIVE BitOr(_, _)
BitOr(a, b) ==
    IF a = 0 THEN b
    ELSE IF b = 0 THEN a
    ELSE 2 * BitOr(a \div 2, b \div 2) + (IF a % 2 = 1 \/ b % 2 = 1 THEN 1 ELSE 0)

\* bitAlloc with memory that is not zeroed
bitAllocDirty(bitCount) ==
    LET byteCount == (bitCount + 7) \div 8
    IN  [i \in 1..byteCount |-> 255]

\* bitAlloc that rounds the number of bytes down
bitAllocShort(bitCount) ==
    LET byteCount == bitCount \div 8
    IN  [i \in 1..byteCount |-> 0]

\* b[i] of the C code is b[i + 1] here
bitAlloc(bitCount) ==
    LET byteCount == (bitCount + 7) \div 8
    IN  [i \in 1..byteCount |-> 0]

\* bitSetRange with endIx one too far
bitSetRangeWide(b, startIx, bitCount) ==
    IF bitCount <= 0 THEN b
    ELSE LET endIx == startIx + bitCount
             startByte == startIx \div 8
             endByte == endIx \div 8
             startBits == startIx % 8
             endBits == endIx % 8
         IN  IF startByte = endByte
             THEN [b EXCEPT ![startByte + 1] =
                      BitOr(@, BitAnd(leftMask[startBits + 1], rightMask[endBits + 1]))]
             ELSE [i \in DOMAIN b |->
                      IF i - 1 = startByte THEN BitOr(b[i], leftMask[startBits + 1])
                      ELSE IF startByte < i - 1 /\ i - 1 < endByte THEN 255
                      ELSE IF i - 1 = endByte THEN BitOr(b[i], rightMask[endBits + 1])
                      ELSE b[i]]

\* bitSetRange without the loop over the bytes between the first and the last
bitSetRangeNoFill(b, startIx, bitCount) ==
    IF bitCount <= 0 THEN b
    ELSE LET endIx == startIx + bitCount - 1
             startByte == startIx \div 8
             endByte == endIx \div 8
             startBits == startIx % 8
             endBits == endIx % 8
         IN  IF startByte = endByte
             THEN [b EXCEPT ![startByte + 1] =
                      BitOr(@, BitAnd(leftMask[startBits + 1], rightMask[endBits + 1]))]
             ELSE [i \in DOMAIN b |->
                      IF i - 1 = startByte THEN BitOr(b[i], leftMask[startBits + 1])
                      ELSE IF i - 1 = endByte THEN BitOr(b[i], rightMask[endBits + 1])
                      ELSE b[i]]

bitSetRange(b, startIx, bitCount) ==
    IF bitCount <= 0 THEN b
    ELSE LET endIx == startIx + bitCount - 1
             startByte == startIx \div 8
             endByte == endIx \div 8
             startBits == startIx % 8
             endBits == endIx % 8
         IN  IF startByte = endByte
             THEN [b EXCEPT ![startByte + 1] =
                      BitOr(@, BitAnd(leftMask[startBits + 1], rightMask[endBits + 1]))]
             ELSE [i \in DOMAIN b |->
                      IF i - 1 = startByte THEN BitOr(b[i], leftMask[startBits + 1])
                      ELSE IF startByte < i - 1 /\ i - 1 < endByte THEN 255
                      ELSE IF i - 1 = endByte THEN BitOr(b[i], rightMask[endBits + 1])
                      ELSE b[i]]

bitReadOne(b, bitIx) ==
    BitAnd(b[(bitIx \div 8) + 1], oneBit[(bitIx % 8) + 1]) # 0

\* the first loop of bitFind: returns <<found, iBit>>
RECURSIVE bitFindInitial(_, _, _, _)
bitFindInitial(b, iBit, val, bitCount) ==
    IF (iBit % 8) # 0 /\ iBit < bitCount
    THEN IF bitReadOne(b, iBit) = val THEN <<TRUE, iBit>>
         ELSE bitFindInitial(b, iBit + 1, val, bitCount)
    ELSE <<FALSE, iBit>>

\* the second loop: skip the bytes equal to notByteVal
RECURSIVE bitFindBytes(_, _, _, _)
bitFindBytes(b, iByte, endByte, notByteVal) ==
    IF iByte < endByte /\ b[iByte + 1] = notByteVal
    THEN bitFindBytes(b, iByte + 1, endByte, notByteVal)
    ELSE iByte

\* the third loop returning where it stopped instead of bitCount
RECURSIVE bitFindLastWhereStopped(_, _, _, _)
bitFindLastWhereStopped(b, iBit, val, bitCount) ==
    IF iBit < bitCount
    THEN IF bitReadOne(b, iBit) = val THEN iBit
         ELSE bitFindLastWhereStopped(b, iBit + 1, val, bitCount)
    ELSE iBit

\* the third loop
RECURSIVE bitFindLast(_, _, _, _)
bitFindLast(b, iBit, val, bitCount) ==
    IF iBit < bitCount
    THEN IF bitReadOne(b, iBit) = val THEN iBit
         ELSE bitFindLast(b, iBit + 1, val, bitCount)
    ELSE bitCount

\* bitFind whose last loop stops one bit early
bitFindShort(b, startIx, val, bitCount) ==
    LET notByteVal == IF val THEN 0 ELSE 255
        endByte == (bitCount - 1) \div 8
        first == bitFindInitial(b, startIx, val, bitCount)
    IN  IF first[1] THEN first[2]
        ELSE LET iByte == first[2] \div 8
                 iBit == IF iByte < endByte
                         THEN 8 * bitFindBytes(b, iByte, endByte, notByteVal)
                         ELSE first[2]
                 found == bitFindLast(b, iBit, val, bitCount - 1)
             IN  IF found < bitCount - 1 THEN found ELSE bitCount

\* bitFind whose last loop runs to the end of the last byte
bitFindToByteEnd(b, startIx, val, bitCount) ==
    LET notByteVal == IF val THEN 0 ELSE 255
        endByte == (bitCount - 1) \div 8
        first == bitFindInitial(b, startIx, val, bitCount)
    IN  IF first[1] THEN first[2]
        ELSE LET iByte == first[2] \div 8
                 iBit == IF iByte < endByte
                         THEN 8 * bitFindBytes(b, iByte, endByte, notByteVal)
                         ELSE first[2]
                 found == bitFindLast(b, iBit, val, 8 * (endByte + 1))
             IN  IF found < 8 * (endByte + 1) THEN found ELSE bitCount

bitFind(b, startIx, val, bitCount) ==
    LET notByteVal == IF val THEN 0 ELSE 255
        endByte == (bitCount - 1) \div 8
        first == bitFindInitial(b, startIx, val, bitCount)
    IN  IF first[1] THEN first[2]
        ELSE LET iByte == first[2] \div 8
                 iBit == IF iByte < endByte
                         THEN 8 * bitFindBytes(b, iByte, endByte, notByteVal)
                         ELSE first[2]
             IN  bitFindLast(b, iBit, val, bitCount)

\* bitFindSet that does not look at the last bit
bitFindSetShort(b, startIx, bitCount) == bitFindShort(b, startIx, TRUE, bitCount)

\* bitFindSet that starts after startIx
bitFindSetAfter(b, startIx, bitCount) == bitFind(b, startIx + 1, TRUE, bitCount)

bitFindSet(b, startIx, bitCount) == bitFind(b, startIx, TRUE, bitCount)

\* bitFindClear that starts after startIx
bitFindClearAfter(b, startIx, bitCount) == bitFind(b, startIx + 1, FALSE, bitCount)

bitFindClear(b, startIx, bitCount) == bitFind(b, startIx, FALSE, bitCount)

\* the bytes b[j] that bitFind reads, as the set of the j
bitFindReads(b, startIx, val, bitCount) ==
    LET notByteVal == IF val THEN 0 ELSE 255
        endByte == (bitCount - 1) \div 8
        first == bitFindInitial(b, startIx, val, bitCount)
        readsInitial == IF (startIx % 8) # 0 /\ startIx < bitCount
                        THEN {startIx \div 8} ELSE {}
    IN  IF first[1] THEN readsInitial
        ELSE LET iByte == first[2] \div 8
                 stop == bitFindBytes(b, iByte, endByte, notByteVal)
                 readsBytes == {j \in iByte..stop : j < endByte}
                 iBit == IF iByte < endByte THEN 8 * stop ELSE first[2]
                 found == bitFindLast(b, iBit, val, bitCount)
                 readsLast == {i \div 8 : i \in {k \in iBit..found : k < bitCount}}
             IN  readsInitial \cup readsBytes \cup readsLast

\* the count that bitsInByteInit stores for byte i
bitsInByteCount(i) ==
    (IF BitAnd(i, 1) # 0 THEN 1 ELSE 0) + (IF BitAnd(i, 2) # 0 THEN 1 ELSE 0)
  + (IF BitAnd(i, 4) # 0 THEN 1 ELSE 0) + (IF BitAnd(i, 8) # 0 THEN 1 ELSE 0)
  + (IF BitAnd(i, 16) # 0 THEN 1 ELSE 0) + (IF BitAnd(i, 32) # 0 THEN 1 ELSE 0)
  + (IF BitAnd(i, 64) # 0 THEN 1 ELSE 0) + (IF BitAnd(i, 128) # 0 THEN 1 ELSE 0)

\* the table that the loop of bitsInByteInit fills
bitsInByteFilled == [v \in 1..256 |-> bitsInByteCount(v - 1)]

\* the table before anything is stored: a zeroed static array
bitsInByteZero == [v \in 1..256 |-> 0]

bitsInByteInit ==
    IF ~inittedBitsInByte
    THEN /\ inittedBitsInByte' = TRUE
         /\ bitsInByte' = bitsInByteFilled
    ELSE UNCHANGED <<bitsInByte, inittedBitsInByte>>

\* the table as bitCountRange reads it, after "if (!inittedBitsInByte)
\* bitsInByteInit();"
bitsInByteRead == IF inittedBitsInByte THEN bitsInByte ELSE bitsInByteFilled

\* the loop of bitCountRange over the bytes between the first and the last
RECURSIVE bitCountBytes(_, _, _)
bitCountBytes(b, i, endByte) ==
    IF i < endByte THEN bitsInByteRead[b[i + 1] + 1] + bitCountBytes(b, i + 1, endByte)
    ELSE 0

\* bitCountRange that counts the whole first byte of a range over several bytes
bitCountRangeNoLeftMask(b, startIx, bitCount) ==
    IF bitCount <= 0 THEN 0
    ELSE LET endIx == startIx + bitCount - 1
             startByte == startIx \div 8
             endByte == endIx \div 8
             startBits == startIx % 8
             endBits == endIx % 8
         IN  IF startByte = endByte
             THEN bitsInByteRead[BitAnd(BitAnd(b[startByte + 1], leftMask[startBits + 1]),
                                        rightMask[endBits + 1]) + 1]
             ELSE bitsInByteRead[b[startByte + 1] + 1]
                  + bitCountBytes(b, startByte + 1, endByte)
                  + bitsInByteRead[BitAnd(b[endByte + 1], rightMask[endBits + 1]) + 1]

bitCountRange(b, startIx, bitCount) ==
    IF bitCount <= 0 THEN 0
    ELSE LET endIx == startIx + bitCount - 1
             startByte == startIx \div 8
             endByte == endIx \div 8
             startBits == startIx % 8
             endBits == endIx % 8
         IN  IF startByte = endByte
             THEN bitsInByteRead[BitAnd(BitAnd(b[startByte + 1], leftMask[startBits + 1]),
                                        rightMask[endBits + 1]) + 1]
             ELSE bitsInByteRead[BitAnd(b[startByte + 1], leftMask[startBits + 1]) + 1]
                  + bitCountBytes(b, startByte + 1, endByte)
                  + bitsInByteRead[BitAnd(b[endByte + 1], rightMask[endBits + 1]) + 1]

----------------------------------------------------------------------------
(* The library used directly, not through the cache controller *)

\* no bit vector
NoVec == [n |-> 0, b |-> <<>>, ref |-> <<>>, sets |-> 0]

\* no call made yet
NoCall == [op |-> "none"]

\* the library state of a program that only uses the cache controller
\* nothing but bit vectors and extent lists in use
\* no TrackHub object and the like in use
NoObjects ==
    /\ th = <<>>
    /\ lf = <<>>

OtherIdle ==
    /\ cacheDir = <<>>
    /\ NoObjects

LibIdle ==
    /\ bitsInByte = bitsInByteZero
    /\ inittedBitsInByte = FALSE
    /\ vec = NoVec
    /\ list = <<>>
    /\ OtherIdle
    /\ call = NoCall

----------------------------------------------------------------------------
(* The remote source: its content is a known function of its size and      *)
(* modification time, never 0, so that a hole of the sparse file shows     *)

SrcByte(org, o) == 1 + ((7 * org.modTime + 3 * org.size + 5 * o) % 251)

\* fetchRange(start, end) of the Remote Source Adapter, on success
SrcRange(org, start, end) == [k \in 1..(end - start) |-> SrcByte(org, start + k - 1)]

----------------------------------------------------------------------------
(* The cache controller *)

NumBlocks(size, bs) == (size + bs - 1) \div bs

\* the format identifier and version that the bitmap file starts with
HeaderMagic == "udcBitmap"
HeaderVersion == 1

NoHeader ==
    [magic |-> "", version |-> 0, blockSize |-> 0, remoteModTime |-> 0, remoteSize |-> 0]

\* a closed handle; the fields after pc describe the call in progress
IdleHandle ==
    [open |-> FALSE, pos |-> 0, pc |-> "idle", kind |-> "", size |-> 0,
     offset |-> 0, end |-> 0, scan |-> 0, endBlock |-> 0, ext |-> <<>>, buf |-> <<>>,
     wpos |-> 0, fetched |-> <<>>, bitsBefore |-> <<>>, existed |-> FALSE, age |-> 0,
     stat |-> FALSE, stale |-> FALSE, metaBefore |-> NoHeader, bitsOld |-> <<>>,
     ok |-> FALSE, error |-> "", written |-> 0, result |-> <<>>, retry |-> <<>>]

AllIdle == \A p \in active : h[p].pc = "idle"

\* the staleness check made already when the timeout has just been reached
StaleCheckDueEarly == now - lastStaleCheckTime >= CacheTimeout

\* the staleness check is due: the cache files are older than the timeout
StaleCheckDue == now - lastStaleCheckTime > CacheTimeout

\* stat() disagrees with the stored size and modification time
Disagrees == hdr.remoteSize # origin.size \/ hdr.remoteModTime # origin.modTime

\* the header of an entry created now from stat()
NewHeader ==
    [magic |-> HeaderMagic, version |-> HeaderVersion,
     blockSize |-> blockSize, remoteModTime |-> origin.modTime, remoteSize |-> origin.size]

\* the sanity checks on the bitmap file: magic, version, and a bit array of
\* the length that the stored size asks for
HeaderOk ==
    /\ hdr.magic = HeaderMagic
    /\ hdr.version = HeaderVersion
    /\ hdr.blockSize > 0
    /\ Len(bits) = (NumBlocks(hdr.remoteSize, hdr.blockSize) + 7) \div 8

\* the bit vector of an entry created now: a zero bit for every block
NewBits == bitAlloc(NumBlocks(origin.size, blockSize))

\* the sparse data file of an entry created now: remoteSize bytes, none written
NewData == [i \in 1..origin.size |-> 0]

\* Steps 1 and 2 of Open, and the staleness check of a Read: the cache entry
\* after it, and what was decided
Reconciled ==
    LET existed == cacheExists
        due == existed /\ StaleCheckDue
        stat == ~existed \/ due
        stale == due /\ Disagrees
        create == ~existed \/ stale
    IN  [hdr |-> IF create THEN NewHeader ELSE hdr,
         bits |-> IF create THEN NewBits ELSE bits,
         data |-> IF create THEN NewData ELSE data,
         lastStaleCheckTime |-> IF stat THEN now ELSE lastStaleCheckTime,
         fetchCount |-> IF create
                        THEN [i \in 1..NumBlocks(origin.size, blockSize) |-> 0]
                        ELSE fetchCount,
         aborted |-> IF create THEN FALSE ELSE aborted,
         existed |-> existed,
         age |-> IF existed THEN now - lastStaleCheckTime ELSE 0,
         stat |-> stat,
         stale |-> stale]

Reconcile(r) ==
    /\ cacheExists' = TRUE
    /\ hdr' = r.hdr
    /\ bits' = r.bits
    /\ data' = r.data
    /\ lastStaleCheckTime' = r.lastStaleCheckTime
    /\ fetchCount' = r.fetchCount
    /\ aborted' = r.aborted

\* the bytes buf written to the data file d at byte offset at
WriteAt(d, at, buf) ==
    [i \in DOMAIN d |->
        IF at < i /\ i <= at + Len(buf) THEN buf[i - at] ELSE d[i]]

\* the byte range of the extent of blocks [s, e): it ends at the end of the file
ExtStart(ext) == ext[1] * hdr.blockSize
ExtEnd(ext) == Min(ext[2] * hdr.blockSize, hdr.remoteSize)

\* udcFileOpen: what it does to the handle and the cache
udcFileOpenStep(p) ==
    /\ ~h[p].open
    /\ h[p].pc = "idle"
    /\ cacheExists => HeaderOk
    /\ LET r == Reconciled
       IN  /\ Reconcile(r)
           /\ h' = [h EXCEPT ![p] =
                      [IdleHandle EXCEPT !.open = TRUE, !.pc = "done", !.kind = "open",
                                         !.ok = TRUE, !.existed = r.existed,
                                         !.age = r.age, !.stat = r.stat,
                                         !.stale = r.stale, !.metaBefore = hdr,
                                         !.bitsOld = bits]]
    /\ UNCHANGED <<now, origin, changes, blockSize, active, logging, readLog>>

\* udcFileOpen
udcFileOpen(p) ==
    /\ udcFileOpenStep(p)
    /\ UNCHANGED libVars

\* udcFileOpen finds a bitmap file that fails the sanity checks: the error
\* CorruptCacheHeader, no handle, and the files are not used
udcFileOpenCorrupt(p) ==
    /\ ~h[p].open
    /\ h[p].pc = "idle"
    /\ cacheExists
    /\ ~HeaderOk
    /\ h' = [h EXCEPT ![p] =
               [IdleHandle EXCEPT !.pc = "done", !.kind = "open", !.ok = FALSE,
                                  !.error = "CorruptCacheHeader", !.existed = TRUE,
                                  !.metaBefore = hdr, !.bitsOld = bits]]
    /\ UNCHANGED libVars
    /\ UNCHANGED <<now, origin, changes, blockSize, cacheExists, hdr, bits, data,
                   lastStaleCheckTime, active, fetchCount, aborted, logging, readLog>>

\* udcFileClose that removes the bitmap and the sparseData file
udcFileCloseStepDeleting(p) ==
    /\ h[p].open
    /\ h[p].pc = "idle"
    /\ h' = [h EXCEPT ![p] = IdleHandle]
    /\ cacheExists' = FALSE
    /\ hdr' = NoHeader
    /\ bits' = <<>>
    /\ data' = <<>>
    /\ fetchCount' = <<>>
    /\ UNCHANGED <<now, origin, changes, blockSize,
                   lastStaleCheckTime, active, aborted, logging, readLog>>

\* udcFileClose: releases the handle, the files stay
udcFileCloseStep(p) ==
    /\ h[p].open
    /\ h[p].pc = "idle"
    /\ h' = [h EXCEPT ![p] = IdleHandle]
    /\ UNCHANGED <<now, origin, changes, blockSize, cacheExists, hdr, bits, data,
                   lastStaleCheckTime, active, fetchCount, aborted, logging, readLog>>

\* udcFileClose
udcFileClose(p) ==
    /\ udcFileCloseStep(p)
    /\ UNCHANGED libVars

\* udcSeek with the offset taken relative to the cursor
udcSeekStepRelative(p, offset) ==
    /\ h[p].open
    /\ h[p].pc = "idle"
    /\ h' = [h EXCEPT ![p].pos = h[p].pos + offset]
    /\ UNCHANGED <<now, origin, changes, blockSize, cacheExists, hdr, bits, data,
                   lastStaleCheckTime, active, fetchCount, aborted, logging, readLog>>

\* udcSeek: what it does to the handle and the cache
udcSeekStep(p, offset) ==
    /\ h[p].open
    /\ h[p].pc = "idle"
    /\ h' = [h EXCEPT ![p].pos = offset]
    /\ UNCHANGED <<now, origin, changes, blockSize, cacheExists, hdr, bits, data,
                   lastStaleCheckTime, active, fetchCount, aborted, logging, readLog>>

\* udcSeek to another offset than the current one
udcSeek(p, offset) ==
    /\ h[p].pos # offset
    /\ udcSeekStep(p, offset)
    /\ UNCHANGED libVars

\* udcSeekCur: what it does to the handle and the cache; the offset is
\* unsigned and the sum stays below the width of the cursor
udcSeekCurStep(p, offset) ==
    /\ h[p].open
    /\ h[p].pc = "idle"
    /\ h' = [h EXCEPT ![p].pos = h[p].pos + offset]
    /\ UNCHANGED <<now, origin, changes, blockSize, cacheExists, hdr, bits, data,
                   lastStaleCheckTime, active, fetchCount, aborted, logging, readLog>>

\* udcTell: the current file offset
udcTell(p) == h[p].pos

\* udcRead, step 1: the staleness check, then the block range of
\* [offset, offset + size) cut at the end of the file; retry is what the
\* Read before it left behind, when this is its retry
ReadStart(p, size, retry) ==
    /\ LET r == Reconciled
           bs == r.hdr.blockSize
           offset == h[p].pos
           end == IF offset >= r.hdr.remoteSize THEN offset
                  ELSE Min(offset + size, r.hdr.remoteSize)
           startBlock == offset \div bs
           endBlock == IF end = offset THEN startBlock ELSE (end + bs - 1) \div bs
       IN  /\ Reconcile(r)
           /\ h' = [h EXCEPT ![p] =
                      [IdleHandle EXCEPT
                                !.open = TRUE, !.pos = offset,
                                !.pc = "find", !.kind = "read", !.size = size,
                                !.offset = offset,
                                !.end = end, !.scan = startBlock, !.endBlock = endBlock,
                                !.bitsBefore = r.bits, !.existed = r.existed,
                                !.age = r.age, !.stat = r.stat, !.stale = r.stale,
                                !.metaBefore = hdr, !.bitsOld = bits,
                                !.retry = IF r.stale THEN <<>> ELSE retry]]
    /\ UNCHANGED <<now, origin, changes, blockSize, active, logging, readLog>>

\* udcRead is called
udcReadBegin(p, size) ==
    /\ h[p].open
    /\ h[p].pc = "idle"
    /\ ReadStart(p, size, <<>>)
    /\ UNCHANGED libVars

\* udcRead is called again with the same size right after it failed
udcReadRetry(p) ==
    /\ h[p].pc = "done"
    /\ h[p].kind = "read"
    /\ ~h[p].ok
    /\ ReadStart(p, h[p].size, <<h[p].ext, h[p].error, h[p].written>>)
    /\ UNCHANGED libVars

\* udcRead, step 2: the next run of clear bits in the block range
FindExtent(p) ==
    /\ h[p].pc = "find"
    /\ LET s == IF h[p].scan >= h[p].endBlock THEN h[p].endBlock
                ELSE bitFindClear(bits, h[p].scan, h[p].endBlock)
       IN  IF s >= h[p].endBlock
           THEN h' = [h EXCEPT ![p].pc = "serve"]
           ELSE h' = [h EXCEPT ![p].pc = "fetch",
                               ![p].ext = <<s, bitFindSet(bits, s, h[p].endBlock)>>]
    /\ UNCHANGED libVars
    /\ UNCHANGED <<now, origin, changes, blockSize, cacheExists, hdr, bits, data,
                   lastStaleCheckTime, active, fetchCount, aborted, logging, readLog>>

\* udcRead, step 3: fetchRange of the extent's bytes succeeds
FetchRange(p) ==
    /\ h[p].pc = "fetch"
    /\ ExtEnd(h[p].ext) <= origin.size
    /\ h' = [h EXCEPT ![p].pc = "write",
                      ![p].buf = SrcRange(origin, ExtStart(h[p].ext), ExtEnd(h[p].ext)),
                      ![p].wpos = ExtStart(h[p].ext),
                      ![p].fetched = Append(@, h[p].ext)]
    /\ fetchCount' = IF aborted THEN fetchCount
                     ELSE [i \in DOMAIN fetchCount |->
                             IF h[p].ext[1] < i /\ i <= h[p].ext[2]
                             THEN fetchCount[i] + 1 ELSE fetchCount[i]]
    /\ UNCHANGED libVars
    /\ UNCHANGED <<now, origin, changes, blockSize, cacheExists, hdr, bits, data,
                   lastStaleCheckTime, active, aborted, logging, readLog>>

\* the extents of a Read as byte ranges, for the log
Logged(hp) ==
    IF logging /\ Len(readLog) < MaxLog
    THEN Append(readLog, <<hp.offset, hp.end,
                           [k \in DOMAIN hp.fetched |->
                               <<ExtStart(hp.fetched[k]), ExtEnd(hp.fetched[k])>>]>>)
    ELSE readLog

\* a Read ends with an error after n bytes of its extent were written: no
\* data, the cursor stays
Abort(p, error, n) ==
    /\ h' = [h EXCEPT ![p].pc = "done", ![p].ok = FALSE, ![p].error = error,
                      ![p].result = <<>>, ![p].buf = <<>>, ![p].written = n]
    /\ readLog' = Logged(h[p])
    /\ aborted' = TRUE
    /\ fetchCount' = [i \in DOMAIN fetchCount |-> 0]

\* udcRead, step 3: fetchRange fails after n bytes of the extent reached the
\* data file (origin unreachable, short read, range not satisfiable)
FetchRangeFail(p, n) ==
    /\ h[p].pc = "fetch"
    /\ n < ExtEnd(h[p].ext) - ExtStart(h[p].ext)
    /\ ExtStart(h[p].ext) + n <= origin.size
    /\ data' = WriteAt(data, ExtStart(h[p].ext),
                       SrcRange(origin, ExtStart(h[p].ext), ExtStart(h[p].ext) + n))
    /\ Abort(p, "fetch", n)
    /\ UNCHANGED libVars
    /\ UNCHANGED <<now, origin, changes, blockSize, cacheExists, hdr, bits,
                   lastStaleCheckTime, active, logging>>

\* the end of the block that holds byte offset o, within the extent
BlockEnd(o, ext) == Min(((o \div hdr.blockSize) + 1) * hdr.blockSize, ExtEnd(ext))

\* udcRead, step 3: the next block of the fetched bytes is written
WriteBlock(p) ==
    /\ h[p].pc = "write"
    /\ LET from == h[p].wpos
           to == BlockEnd(from, h[p].ext)
           start == ExtStart(h[p].ext)
       IN  /\ data' = WriteAt(data, from, SubSeq(h[p].buf, from - start + 1, to - start))
           /\ h' = [h EXCEPT ![p].wpos = to,
                             ![p].pc = IF to = ExtEnd(h[p].ext) THEN "setbits" ELSE "write"]
    /\ UNCHANGED libVars
    /\ UNCHANGED <<now, origin, changes, blockSize, cacheExists, hdr, bits,
                   lastStaleCheckTime, active, fetchCount, aborted, logging, readLog>>

\* udcRead, step 3: the write fails (disk full) after n bytes of the block
WriteFail(p, n) ==
    /\ h[p].pc = "write"
    /\ LET from == h[p].wpos
           start == ExtStart(h[p].ext)
       IN  /\ n < BlockEnd(from, h[p].ext) - from
           /\ data' = WriteAt(data, from, SubSeq(h[p].buf, from - start + 1, from - start + n))
    /\ Abort(p, "write", h[p].wpos - ExtStart(h[p].ext) + n)
    /\ UNCHANGED libVars
    /\ UNCHANGED <<now, origin, changes, blockSize, cacheExists, hdr, bits,
                   lastStaleCheckTime, active, logging>>

\* udcRead, step 3: the bits of the extent are set, after its bytes are written
SetBits(p) ==
    /\ h[p].pc = "setbits"
    /\ bits' = bitSetRange(bits, h[p].ext[1], h[p].ext[2] - h[p].ext[1])
    /\ h' = [h EXCEPT ![p].pc = "find", ![p].scan = h[p].ext[2], ![p].buf = <<>>]
    /\ UNCHANGED libVars
    /\ UNCHANGED <<now, origin, changes, blockSize, cacheExists, hdr, data,
                   lastStaleCheckTime, active, fetchCount, aborted, logging, readLog>>

\* what a Read of [offset, end) returns: the bytes of the data file
ServeResult(p) == SubSeq(data, h[p].offset + 1, h[p].end)

\* udcRead, step 4: the bytes are read from the data file
Serve(p) ==
    /\ h[p].pc = "serve"
    /\ h' = [h EXCEPT ![p].pc = "done", ![p].pos = h[p].end, ![p].ok = TRUE,
                      ![p].result = ServeResult(p)]
    /\ readLog' = Logged(h[p])
    /\ UNCHANGED libVars
    /\ UNCHANGED <<now, origin, changes, blockSize, cacheExists, hdr, bits, data,
                   lastStaleCheckTime, active, fetchCount, aborted, logging>>

\* the call returns to its caller
Return(p) ==
    /\ h[p].pc = "done"
    /\ h' = [h EXCEPT ![p] = [IdleHandle EXCEPT !.open = h[p].open, !.pos = h[p].pos]]
    /\ UNCHANGED libVars
    /\ UNCHANGED <<now, origin, changes, blockSize, cacheExists, hdr, bits, data,
                   lastStaleCheckTime, active, fetchCount, aborted, logging, readLog>>

\* a second passes between two calls
Tick ==
    /\ AllIdle
    /\ now < MaxTime
    /\ now' = now + 1
    /\ UNCHANGED libVars
    /\ UNCHANGED <<origin, changes, blockSize, cacheExists, hdr, bits, data,
                   lastStaleCheckTime, active, h, fetchCount, aborted, logging, readLog>>

Sizes == {MaxSize - SmallBlockSize, MaxSize}

\* the remote file is replaced between two calls: a later modification time
\* with any size, or the same time and more bytes
OriginChange(size, modTime) ==
    /\ AllIdle
    /\ changes < MaxChanges
    /\ \/ modTime = origin.modTime + 1
       \/ modTime = origin.modTime /\ size > origin.size
    /\ origin' = [size |-> size, modTime |-> modTime]
    /\ changes' = changes + 1
    /\ UNCHANGED libVars
    /\ UNCHANGED <<now, blockSize, cacheExists, hdr, bits, data,
                   lastStaleCheckTime, active, h, fetchCount, aborted, logging, readLog>>

----------------------------------------------------------------------------
(* One process, a source that does not change, failing fetches and writes *)

UdcInitWith(procs, bs, sizes, log) ==
    /\ now = 0
    /\ origin \in [size : sizes, modTime : {1}]
    /\ changes = 0
    /\ blockSize = bs
    /\ cacheExists = FALSE
    /\ hdr = NoHeader
    /\ bits = <<>>
    /\ data = <<>>
    /\ lastStaleCheckTime = 0
    /\ active = procs
    /\ h = [p \in Procs |-> IdleHandle]
    /\ fetchCount = <<>>
    /\ aborted = FALSE
    /\ logging = log
    /\ readLog = <<>>

InitWith(procs, bs, sizes, log) ==
    /\ UdcInitWith(procs, bs, sizes, log)
    /\ LibIdle

Init == InitWith({1}, SmallBlockSize, Sizes, FALSE)

Next ==
    \/ \E p \in active : udcFileOpen(p)
    \/ \E p \in active : udcFileClose(p)
    \/ \E p \in active, o \in 0..MaxSize : udcSeek(p, o)
    \/ \E p \in active, n \in 1..MaxSize : udcReadBegin(p, n)
    \/ \E p \in active : FindExtent(p)
    \/ \E p \in active : FetchRange(p)
    \/ \E p \in active, n \in 0..MaxSize : FetchRangeFail(p, n)
    \/ \E p \in active : WriteBlock(p)
    \/ \E p \in active, n \in 0..MaxSize : WriteFail(p, n)
    \/ \E p \in active : SetBits(p)
    \/ \E p \in active : Serve(p)
    \/ \E p \in active : Return(p)
    \/ \E p \in active : udcReadRetry(p)

Spec == Init /\ [][Next]_vars

----------------------------------------------------------------------------
(* One process, the clock, a source that changes between calls *)

NextStale ==
    \/ \E p \in active : udcFileOpen(p)
    \/ \E p \in active : udcFileClose(p)
    \/ \E p \in active, o \in 0..MaxSize : udcSeek(p, o)
    \/ \E p \in active, n \in 1..MaxSize : udcReadBegin(p, n)
    \/ \E p \in active : FindExtent(p)
    \/ \E p \in active : FetchRange(p)
    \/ \E p \in active : FetchRangeFail(p, 0)
    \/ \E p \in active : WriteBlock(p)
    \/ \E p \in active : SetBits(p)
    \/ \E p \in active : Serve(p)
    \/ \E p \in active : Return(p)
    \/ Tick
    \/ \E s \in Sizes, t \in 1..(MaxChanges + 1) : OriginChange(s, t)

SpecStale == Init /\ [][NextStale]_vars

----------------------------------------------------------------------------
(* Two processes on the same cache directory, a source that does not change *)

InitConc == InitWith(Procs, SmallBlockSize, {MaxSize}, FALSE)

NextConc ==
    \/ \E p \in active : udcFileOpen(p)
    \/ \E p \in active, n \in 1..MaxSize : udcReadBegin(p, n)
    \/ \E p \in active : FindExtent(p)
    \/ \E p \in active : FetchRange(p)
    \/ \E p \in active, n \in 0..MaxSize : FetchRangeFail(p, n)
    \/ \E p \in active : WriteBlock(p)
    \/ \E p \in active, n \in 0..MaxSize : WriteFail(p, n)
    \/ \E p \in active : SetBits(p)
    \/ \E p \in active : Serve(p)
    \/ \E p \in active : Return(p)

SpecConc == InitConc /\ [][NextConc]_vars

----------------------------------------------------------------------------
(* The block size of the program, a remote file of 20000 bytes, an empty   *)
(* cache, and the Reads logged                                             *)

ScenarioSize == 20 * 1000
ScenarioReads == {<<0, 100>>, <<15000, 20000>>, <<4000, 16000>>}

InitScenario == InitWith({1}, udcBlockSize, {ScenarioSize}, TRUE)

NextScenario ==
    \/ \E p \in active : udcFileOpen(p)
    \/ \E p \in active, r \in ScenarioReads : udcSeek(p, r[1])
    \/ \E p \in active, r \in ScenarioReads :
          /\ h[p].pos = r[1]
          /\ Len(readLog) < MaxLog
          /\ udcReadBegin(p, r[2] - r[1])
    \/ \E p \in active : FindExtent(p)
    \/ \E p \in active : FetchRange(p)
    \/ \E p \in active : WriteBlock(p)
    \/ \E p \in active : SetBits(p)
    \/ \E p \in active : Serve(p)
    \/ \E p \in active : Return(p)

SpecScenario == InitScenario /\ [][NextScenario]_vars

----------------------------------------------------------------------------
(* What the claims are stated with: the bits and the blocks, read directly *)

\* bit i of the packed array b, most significant bit first
BitIsSet(b, i) == ((b[(i \div 8) + 1] \div (2 ^ (7 - (i % 8)))) % 2) = 1

\* the blocks of the cached file
Blocks == 0..(NumBlocks(hdr.remoteSize, hdr.blockSize) - 1)

\* the byte offsets of block i
BlockBytes(i) ==
    {o \in 0..(hdr.remoteSize - 1) : o \div hdr.blockSize = i}

\* every byte of block i in the data file is the byte of the source org
BlockHolds(i, org) == \A o \in BlockBytes(i) : data[o + 1] = SrcByte(org, o)

\* the source as the header describes it
StoredSource == [size |-> hdr.remoteSize, modTime |-> hdr.remoteModTime]

\* the block range of the Read of process p
ReadBlocks(p) ==
    IF h[p].end = h[p].offset THEN {}
    ELSE (h[p].offset \div hdr.blockSize)..((h[p].end - 1) \div hdr.blockSize)

\* the blocks of a sequence of extents
ExtentBlocks(exts) == {i \in Blocks : \E k \in DOMAIN exts : exts[k][1] <= i /\ i < exts[k][2]}

ReadDone(p) == h[p].pc = "done" /\ h[p].kind = "read"

ReadOk(p) == ReadDone(p) /\ h[p].ok

----------------------------------------------------------------------------
\* C1: with a source that does not change, every Read that succeeds returns
\* exactly the source bytes of [offset, end), whatever was read before, in
\* whatever order, aligned to blocks or not.
C1_RoundTrip ==
    \A p \in active :
        ReadOk(p) => h[p].result = SrcRange(origin, h[p].offset, h[p].end)

\* C1 witness: a Read of an unaligned range over two blocks or more, one of
\* them cached by an earlier Read and one fetched by this one, has returned.
C1_Witness ==
    /\ ReadOk(1)
    /\ h[1].offset % hdr.blockSize # 0
    /\ h[1].end % hdr.blockSize # 0
    /\ Cardinality(ReadBlocks(1)) >= 2
    /\ \E i \in ReadBlocks(1) : BitIsSet(h[1].bitsBefore, i)
    /\ h[1].fetched # <<>>

----------------------------------------------------------------------------
\* C2: after any sequence of Open, Read, failed fetches, failed writes and
\* Close on a source that does not change: every set bit denotes a block
\* whose bytes in the data file are the source's bytes for the stored size
\* and modification time; a Read that failed has left every bit set that was
\* set before it; and a Read is served only from blocks whose bit is set.
C2_SetBitsAreValid ==
    /\ cacheExists => \A i \in Blocks : BitIsSet(bits, i) => BlockHolds(i, StoredSource)
    /\ \A p \in active :
          /\ (ReadDone(p) /\ ~h[p].ok) =>
                \A i \in Blocks : BitIsSet(h[p].bitsBefore, i) => BitIsSet(bits, i)
          /\ (h[p].pc = "serve" \/ ReadOk(p)) =>
                \A i \in ReadBlocks(p) : BitIsSet(bits, i)

\* C2 witness: a write has failed in the middle of a block (its bit is clear,
\* one of its bytes is written) while another block's bit was set before.
C2_Witness ==
    /\ ReadDone(1)
    /\ h[1].error = "write"
    /\ \E i \in Blocks : BitIsSet(h[1].bitsBefore, i)
    /\ \E i \in Blocks :
          /\ ~BitIsSet(bits, i)
          /\ \E o \in BlockBytes(i) : data[o + 1] # 0
          /\ \E o \in BlockBytes(i) : data[o + 1] = 0

\* what a failed Read left behind: <<extent, error, bytes written>>
FailedExtent(f) == f[1]
FailedError(f) == f[2]
FailedBytes(f) == f[3]

\* C3: a Read whose fetchRange failed returns an error and no data, and no
\* bit of the failed extent is set, whatever part of its bytes reached the
\* data file; the retry of the same Read fetches the failed extent again,
\* as the first of the extents it fetches, and only blocks whose bit was
\* clear.
C3_FailedExtentStaysClear ==
    \A p \in active :
        /\ (ReadDone(p) /\ h[p].error = "fetch") =>
              /\ ~h[p].ok
              /\ h[p].result = <<>>
              /\ h[p].pos = h[p].offset
              /\ \A i \in ExtentBlocks(<<h[p].ext>>) : ~BitIsSet(bits, i)
        /\ (ReadOk(p) /\ h[p].retry # <<>> /\ FailedError(h[p].retry) = "fetch") =>
              /\ h[p].fetched # <<>>
              /\ h[p].fetched[1] = FailedExtent(h[p].retry)
              /\ \A i \in ExtentBlocks(h[p].fetched) : ~BitIsSet(h[p].bitsBefore, i)
              /\ \A i \in ReadBlocks(p) :
                    ~BitIsSet(h[p].bitsBefore, i) => i \in ExtentBlocks(h[p].fetched)

\* C3 witness: the retry of a Read has succeeded whose fetch had failed after
\* more than a block of the extent was written.
C3_Witness ==
    /\ ReadOk(1)
    /\ h[1].retry # <<>>
    /\ FailedError(h[1].retry) = "fetch"
    /\ FailedBytes(h[1].retry) > hdr.blockSize

----------------------------------------------------------------------------
\* the end of the run of clear bits of b that starts at i, within [i, hi)
RECURSIVE RunEnd(_, _, _)
RunEnd(b, i, hi) == IF i < hi /\ ~BitIsSet(b, i) THEN RunEnd(b, i + 1, hi) ELSE i

\* the maximal runs of clear bits of b within [lo, hi), in order
RECURSIVE ClearRuns(_, _, _)
ClearRuns(b, lo, hi) ==
    IF lo >= hi THEN <<>>
    ELSE IF BitIsSet(b, lo) THEN ClearRuns(b, lo + 1, hi)
    ELSE <<<<lo, RunEnd(b, lo, hi)>>>> \o ClearRuns(b, RunEnd(b, lo, hi), hi)

\* the extents a Read of process p has to fetch
Missing(p) ==
    IF h[p].end = h[p].offset THEN <<>>
    ELSE ClearRuns(h[p].bitsBefore, h[p].offset \div hdr.blockSize,
                   (h[p].end + hdr.blockSize - 1) \div hdr.blockSize)

C9_FetchesMaximalClearRuns ==
    \A p \in active :
        /\ ReadOk(p) =>
              /\ h[p].fetched = Missing(p)
              /\ \A i \in ReadBlocks(p) : BitIsSet(bits, i)
        /\ (ReadDone(p) /\ ~h[p].ok) =>
              /\ Len(h[p].fetched) <= Len(Missing(p))
              /\ h[p].fetched = SubSeq(Missing(p), 1, Len(h[p].fetched))

\* C9 witness: a Read over three blocks, the middle one cached, has fetched
\* the two others as two extents.
C9_Witness ==
    /\ ReadOk(1)
    /\ Cardinality(ReadBlocks(1)) = 3
    /\ Len(h[1].fetched) = 2
    /\ h[1].fetched[1][2] < h[1].fetched[2][1]

----------------------------------------------------------------------------
\* C4: two processes read through the same cache directory, their steps
\* interleaved in any way, the source unchanged: a set bit always denotes a
\* block that is completely written with the source's bytes, and every Read
\* that succeeds returns the source's bytes.
C4_ConcurrentReadsAreSafe ==
    /\ cacheExists => \A i \in Blocks : BitIsSet(bits, i) => BlockHolds(i, origin)
    /\ \A p \in active :
          ReadOk(p) => h[p].result = SrcRange(origin, h[p].offset, h[p].end)

\* C4 witness: process 1 is writing an extent it fetched while process 2 has
\* fetched the same block, written it and set its bit; the next block of the
\* extent is half written by a write that failed, and its bit is clear.
C4_Witness ==
    /\ active = Procs
    /\ h[1].pc = "write"
    /\ h[2].pc \in {"find", "serve"}
    /\ \E i \in ExtentBlocks(<<h[1].ext>>) :
          /\ BitIsSet(bits, i)
          /\ i \in ExtentBlocks(h[2].fetched)
    /\ \E i \in ExtentBlocks(<<h[1].ext>>) :
          /\ ~BitIsSet(bits, i)
          /\ \E o \in BlockBytes(i) : data[o + 1] # 0
          /\ \E o \in BlockBytes(i) : data[o + 1] = 0

----------------------------------------------------------------------------
\* what stat() answers, as header fields
Stat == [magic |-> HeaderMagic, version |-> HeaderVersion, blockSize |-> blockSize,
         remoteModTime |-> origin.modTime, remoteSize |-> origin.size]

\* b is a vector of n clear bits
AllClear(b, n) == Len(b) = (n + 7) \div 8 /\ \A i \in 0..(n - 1) : ~BitIsSet(b, i)

\* C5: a Read that starts more than the cache timeout after the last check,
\* with an origin whose size or modification time differs from the stored
\* ones, asks the origin, invalidates the entry (header as the origin, a bit
\* vector of ceil(remoteSize/blockSize) clear bits, a data file of remoteSize
\* bytes with nothing written) and, when it succeeds, has fetched every block
\* of its range and returns the new content.
C5_StaleEntryIsRefetched ==
    \A p \in active :
        (h[p].kind = "read" /\ h[p].existed /\ h[p].age > CacheTimeout
           /\ h[p].metaBefore # Stat) =>
            /\ h[p].stat
            /\ hdr = Stat
            /\ AllClear(h[p].bitsBefore, NumBlocks(origin.size, blockSize))
            /\ Len(data) = origin.size
            /\ (h[p].pc = "find" /\ h[p].fetched = <<>>) =>
                  \A o \in 1..Len(data) : data[o] = 0
            /\ ReadOk(p) =>
                  /\ ExtentBlocks(h[p].fetched) = ReadBlocks(p)
                  /\ h[p].result = SrcRange(origin, h[p].offset, h[p].end)

\* C5 witness: a Read has returned bytes of a block that was cached from the
\* earlier version of the origin, after the entry was invalidated.
C5_Witness ==
    /\ ReadOk(1)
    /\ h[1].age > CacheTimeout
    /\ h[1].metaBefore # hdr
    /\ h[1].result # <<>>
    /\ \E i \in ReadBlocks(1) :
          i < 8 * Len(h[1].bitsOld) /\ BitIsSet(h[1].bitsOld, i)

\* C6 as stated: no Read that succeeds, within the cache timeout or after
\* it, returns bytes that differ from the origin's current content.
C6_NeverStale ==
    \A p \in active :
        ReadOk(p) => h[p].result = SrcRange(origin, h[p].offset, h[p].end)

\* C6 as amended: a Read that made the staleness check (it started more than
\* the cache timeout after the last one) returns the origin's current
\* content, and the header agrees with the origin.
C6_FreshAfterCheck ==
    \A p \in active :
        (ReadOk(p) /\ h[p].stat) =>
            /\ hdr = Stat
            /\ h[p].result = SrcRange(origin, h[p].offset, h[p].end)

\* C6 witness: after the origin changed, a Read made the check, found the
\* entry up to date and returned cached bytes without a fetch.
C6_Witness ==
    /\ ReadOk(1)
    /\ h[1].stat
    /\ ~h[1].stale
    /\ changes > 0
    /\ h[1].result # <<>>
    /\ h[1].fetched = <<>>

----------------------------------------------------------------------------
\* the first n Reads of the log are those of the scenario, in its order
ScenarioOrder == <<<<0, 100>>, <<15000, 20000>>, <<4000, 16000>>>>

FollowsScenario(n) ==
    /\ Len(readLog) >= n
    /\ \A k \in 1..n : <<readLog[k][1], readLog[k][2]>> = ScenarioOrder[k]

\* C10: with blocks of 8192 bytes, a remote file of 20000 bytes and an empty
\* cache, Read [0,100) fetches bytes [0,8192); then Read [15000,20000)
\* fetches one extent, bytes [8192,20000); then Read [4000,16000) fetches
\* nothing.
C10_Scenario ==
    /\ FollowsScenario(1) => readLog[1][3] = <<<<0, 8192>>>>
    /\ FollowsScenario(2) => readLog[2][3] = <<<<8192, 20000>>>>
    /\ FollowsScenario(3) => readLog[3][3] = <<>>

\* C10 witness: the three Reads of the scenario have been made in its order,
\* all with success, and all three blocks are cached.
C10_Witness ==
    /\ hdr.blockSize = 8192
    /\ hdr.remoteSize = 20000
    /\ FollowsScenario(3)
    /\ ReadOk(1)
    /\ \A i \in 0..2 : BitIsSet(bits, i)

----------------------------------------------------------------------------
(* bits.h used directly: a vector is allocated, ranges of it are set, and   *)
(* it is read, counted and searched.  vec.ref is the same vector kept as an *)
(* array of booleans, element i + 1 for bit i.                              *)

MaxBits == 17
MaxSets == 2

\* no process uses the cache controller
UdcUnused == UdcInitWith({}, SmallBlockSize, {MaxSize}, FALSE)

CallBitAlloc(n) ==
    /\ call.op = "none"
    /\ vec' = [n |-> n, b |-> bitAlloc(n), ref |-> [i \in 1..n |-> FALSE], sets |-> 0]
    /\ call' = [op |-> "bitAlloc", bitCount |-> n]
    /\ UNCHANGED <<bitsInByte, inittedBitsInByte, list, otherVars>>
    /\ UNCHANGED udcVars

CallBitSetRange(s, c) ==
    /\ call.op # "none"
    /\ vec.sets < MaxSets
    /\ vec' = [vec EXCEPT !.b = bitSetRange(vec.b, s, c),
                          !.ref = [i \in DOMAIN vec.ref |->
                                      vec.ref[i] \/ (s < i /\ i <= s + c)],
                          !.sets = @ + 1]
    /\ call' = [op |-> "bitSetRange", startIx |-> s, bitCount |-> c, before |-> vec.b]
    /\ UNCHANGED <<bitsInByte, inittedBitsInByte, list, otherVars>>
    /\ UNCHANGED udcVars

\* bitCountRange returns before it looks at the table when bitCount <= 0
CallBitCountRange(s, c) ==
    /\ call.op # "none"
    /\ IF c <= 0 THEN UNCHANGED <<bitsInByte, inittedBitsInByte>> ELSE bitsInByteInit
    /\ call' = [op |-> "bitCountRange", startIx |-> s, bitCount |-> c,
                result |-> bitCountRange(vec.b, s, c),
                initted |-> inittedBitsInByte,
                justSet |-> /\ call.op = "bitSetRange"
                            /\ call.startIx = s
                            /\ call.bitCount = c]
    /\ UNCHANGED <<vec, list, otherVars>>
    /\ UNCHANGED udcVars

CallBitsInByteInit ==
    /\ call.op # "none"
    /\ bitsInByteInit
    /\ call' = [op |-> "bitsInByteInit"]
    /\ UNCHANGED <<vec, list, otherVars>>
    /\ UNCHANGED udcVars

CallBitFind(s, v) ==
    /\ call.op # "none"
    /\ call' = [op |-> "bitFind", startIx |-> s, val |-> v, bitCount |-> vec.n,
                result |-> bitFind(vec.b, s, v, vec.n),
                reads |-> bitFindReads(vec.b, s, v, vec.n)]
    /\ UNCHANGED <<bitsInByte, inittedBitsInByte, vec, list, otherVars>>
    /\ UNCHANGED udcVars

CallBitFindSet(s) ==
    /\ call.op # "none"
    /\ call' = [op |-> "bitFindSet", startIx |-> s, val |-> TRUE, bitCount |-> vec.n,
                result |-> bitFindSet(vec.b, s, vec.n),
                reads |-> bitFindReads(vec.b, s, TRUE, vec.n)]
    /\ UNCHANGED <<bitsInByte, inittedBitsInByte, vec, list, otherVars>>
    /\ UNCHANGED udcVars

CallBitFindClear(s) ==
    /\ call.op # "none"
    /\ call' = [op |-> "bitFindClear", startIx |-> s, val |-> FALSE, bitCount |-> vec.n,
                result |-> bitFindClear(vec.b, s, vec.n),
                reads |-> bitFindReads(vec.b, s, FALSE, vec.n)]
    /\ UNCHANGED <<bitsInByte, inittedBitsInByte, vec, list, otherVars>>
    /\ UNCHANGED udcVars

\* the ranges <<startIx, bitCount>> set after the first: inside a byte,
\* across a byte boundary, over three bytes, from and up to a byte boundary
LaterRanges == {<<3, 3>>, <<6, 4>>, <<5, 12>>, <<8, 4>>, <<12, 4>>}

\* A zeroed vector of up to MaxBits bits; bitSetRange with any range inside
\* it, then with the ranges of LaterRanges, up to MaxSets calls in all; the
\* range just set counted; the vector searched for a set bit while at most
\* one range is set
InitBits == UdcUnused /\ LibIdle

NextBits ==
    \/ \E n \in 0..MaxBits : CallBitAlloc(n)
    \/ /\ vec.sets = 0
       /\ \E s \in 0..vec.n : \E c \in (-1)..(vec.n - s) : CallBitSetRange(s, c)
    \/ /\ vec.sets > 0
       /\ \E r \in LaterRanges :
             /\ r[1] + r[2] <= vec.n
             /\ CallBitSetRange(r[1], r[2])
    \/ /\ call.op = "bitSetRange"
       /\ CallBitCountRange(call.startIx, call.bitCount)
    \/ /\ vec.sets <= 1
       /\ \E s \in 0..vec.n : CallBitFindSet(s)

SpecBits == InitBits /\ [][NextBits]_vars

\* C11: bitSetRange(b, startIx, bitCount) with bitCount > 0 leaves every bit
\* with index in [startIx, startIx + bitCount) set, whether the range lies in
\* one byte or spans several; with bitCount <= 0 it changes no bit.
C11_SetRangeSetsTheRange ==
    call.op = "bitSetRange" =>
        IF call.bitCount > 0
        THEN \A i \in call.startIx..(call.startIx + call.bitCount - 1) :
                 BitIsSet(vec.b, i)
        ELSE vec.b = call.before

\* C11 witness: a range was set that starts inside a byte that was not
\* all zero before, covers the whole next byte and ends inside the third.
C11_Witness ==
    /\ call.op = "bitSetRange"
    /\ call.startIx % 8 # 0
    /\ (call.startIx + call.bitCount) % 8 # 0
    /\ (call.startIx + call.bitCount - 1) \div 8 = (call.startIx \div 8) + 2
    /\ call.before[(call.startIx \div 8) + 1] # 0

\* C12: starting from a zeroed vector of n bits, after any sequence of
\* bitSetRange calls with ranges inside [0, n), bitReadOne agrees at every
\* index with a boolean array updated with the same ranges, and
\* bitCountRange over the range [s, s + c) that was just set returns c.
C12_AgreesWithReference ==
    call.op # "none" =>
        /\ \A i \in 0..(vec.n - 1) : bitReadOne(vec.b, i) = vec.ref[i + 1]
        /\ (call.op = "bitCountRange" /\ call.justSet /\ call.bitCount >= 0)
               => call.result = call.bitCount

\* C12 witness: a second range, over three bytes and overlapping the first,
\* was set and then counted, and part of the vector is still clear.
C12_Witness ==
    /\ call.op = "bitCountRange"
    /\ call.justSet
    /\ call.startIx = 5
    /\ call.bitCount = 12
    /\ vec.sets = 2
    /\ vec.ref[4]
    /\ ~vec.ref[1]

----------------------------------------------------------------------------
(* bits.h used directly on a vector with any content: it is counted and    *)
(* searched, with bitsInByteInit called before or not                      *)

FindPast == 9

\* the bytes a vector is made of: none, all, some, and only the last or the
\* first bit of the byte
ByteValues == {0, 255, 165, 1, 128}

InitFind ==
    /\ UdcUnused
    /\ bitsInByte = bitsInByteZero
    /\ inittedBitsInByte = FALSE
    /\ \E n \in 0..MaxBits : \E bb \in [1..((n + 7) \div 8) -> ByteValues] :
           vec = [n |-> n, b |-> bb, ref |-> [i \in 1..n |-> BitIsSet(bb, i - 1)],
                  sets |-> 0]
    /\ list = <<>>
    /\ OtherIdle
    /\ call = [op |-> "given"]

\* no function that returns a value has been called yet
NoResultYet == call.op \in {"given", "bitsInByteInit"}

\* one call on the vector given, after bitsInByteInit or without it
NextFind ==
    \/ /\ call.op = "given"
       /\ CallBitsInByteInit
    \/ /\ NoResultYet
       /\ \E s \in 0..vec.n : \E c \in (-1)..(vec.n - s) : CallBitCountRange(s, c)
    \/ /\ NoResultYet
       /\ \E s \in 0..(vec.n + FindPast), v \in BOOLEAN : CallBitFind(s, v)
    \/ /\ NoResultYet
       /\ \E s \in 0..(vec.n + FindPast) : CallBitFindSet(s)
    \/ /\ NoResultYet
       /\ \E s \in 0..(vec.n + FindPast) : CallBitFindClear(s)

SpecFind == InitFind /\ [][NextFind]_vars

\* the number of 1 bits of the byte v
OnesOf(v) == Cardinality({k \in 0..7 : (v \div (2 ^ k)) % 2 = 1})

\* a table with the number of 1 bits of v for all v in 0..255, at v + 1
OnesTable == [v \in 1..256 |-> OnesOf(v - 1)]

\* C13: bitCountRange(b, startIx, bitCount) returns the number of indices i in
\* [startIx, startIx + bitCount) at which bitReadOne(b, i) is true, for any
\* content of the vector, and 0 when bitCount <= 0, whether or not
\* bitsInByteInit was called before; once the table is filled, bitsInByte[v]
\* is the number of 1 bits of v for all v in 0..255.
C13_CountIsNumberOfSetBits ==
    /\ call.op = "bitCountRange" =>
           /\ call.result =
                  Cardinality({i \in call.startIx..(call.startIx + call.bitCount - 1) :
                                  bitReadOne(vec.b, i)})
           /\ call.bitCount <= 0 => call.result = 0
           /\ call.bitCount > 0 => inittedBitsInByte
    /\ inittedBitsInByte => bitsInByte = OnesTable

\* C13 witness: with the table filled by an earlier call, a range over three
\* bytes was counted that has set bits before it in its first byte and after
\* it in its last byte, and both set and clear bits inside.
C13_Witness ==
    /\ call.op = "bitCountRange"
    /\ call.initted
    /\ call.startIx % 8 # 0
    /\ (call.startIx + call.bitCount - 1) \div 8 = (call.startIx \div 8) + 2
    /\ \E i \in 0..(call.startIx - 1) : bitReadOne(vec.b, i)
    /\ \E i \in (call.startIx + call.bitCount)..(8 * Len(vec.b) - 1) : bitReadOne(vec.b, i)
    /\ 0 < call.result
    /\ call.result < call.bitCount

\* C13, second case: the same kind of range counted while the table had
\* never been filled
C13_WitnessFirstUse ==
    /\ call.op = "bitCountRange"
    /\ ~call.initted
    /\ (call.startIx + call.bitCount - 1) \div 8 = (call.startIx \div 8) + 2
    /\ 0 < call.result

\* the first index at or after startIx and below bitCount at which the bit
\* of b equals val, found by looking at every bit, or bitCount
PlainScan(b, startIx, val, bitCount) ==
    LET hits == {i \in startIx..(bitCount - 1) : BitIsSet(b, i) = val}
    IN  IF hits = {} THEN bitCount
        ELSE CHOOSE i \in hits : \A j \in hits : i <= j

\* C14: bitFind(b, startIx, val, bitCount) with 0 <= startIx < bitCount
\* returns the smallest index i with startIx <= i < bitCount at which
\* bitReadOne(b, i) = val, or bitCount when there is none, for val TRUE and
\* FALSE, aligned and unaligned startIx, and bitCount not a multiple of 8:
\* the same result as a plain scan bit by bit.
C14_FindIsPlainScan ==
    (call.op = "bitFind" /\ call.startIx < call.bitCount) =>
        call.result = PlainScan(vec.b, call.startIx, call.val, call.bitCount)

\* C14 witness: a search for a clear bit from an unaligned start that leaves
\* its first byte, skips a byte of 0xFF, and ends in a last byte whose only
\* clear bits are padding: the result is bitCount.
C14_Witness ==
    /\ call.op = "bitFind"
    /\ ~call.val
    /\ call.startIx % 8 # 0
    /\ call.bitCount % 8 # 0
    /\ (call.bitCount - 1) \div 8 = (call.startIx \div 8) + 2
    /\ vec.b[(call.startIx \div 8) + 2] = 255
    /\ \E i \in call.bitCount..(8 * Len(vec.b) - 1) : ~BitIsSet(vec.b, i)
    /\ call.result = call.bitCount

\* exactly the bits [from, to) of the first n bits of b are set
SingleRun(b, n, from, to) ==
    \A i \in 0..(n - 1) : BitIsSet(b, i) = (from <= i /\ i < to)

\* C15: for a vector of n bits in which exactly one contiguous run [a, b) is
\* set, bitFindSet(b, start, n) returns a for every start <= a and n for
\* every start >= b.
C15_FindSetOnSingleRun ==
    call.op = "bitFindSet" =>
        \A from \in 0..(vec.n - 1) : \A to \in (from + 1)..vec.n :
            SingleRun(vec.b, vec.n, from, to) =>
                /\ call.startIx <= from => call.result = from
                /\ call.startIx >= to => call.result = vec.n

\* C15 witness: the run starts in the third byte; the search started inside
\* the first byte and returned the start of the run.
C15_Witness ==
    /\ call.op = "bitFindSet"
    /\ call.startIx % 8 # 0
    /\ \E from \in 0..(vec.n - 1) : \E to \in (from + 1)..vec.n :
           /\ SingleRun(vec.b, vec.n, from, to)
           /\ from \div 8 = (call.startIx \div 8) + 2
           /\ call.result = from

\* C15, second case: the search started at or after the end of a run that
\* ends before the end of the vector, and returned n
C15_WitnessAfterRun ==
    /\ call.op = "bitFindSet"
    /\ \E from \in 0..(vec.n - 1) : \E to \in (from + 1)..(vec.n - 1) :
           /\ SingleRun(vec.b, vec.n, from, to)
           /\ call.startIx >= to
           /\ call.startIx < vec.n
           /\ call.result = vec.n

\* C16: bitFind, bitFindSet and bitFindClear called with startIx >= bitCount,
\* bitCount = 0 included, return bitCount and read no byte of the vector
\* beyond index (bitCount - 1) >> 3.
C16_FindFromPastTheEnd ==
    (/\ call.op \in {"bitFind", "bitFindSet", "bitFindClear"}
     /\ call.startIx >= call.bitCount) =>
        /\ call.result = call.bitCount
        /\ \A j \in call.reads : j <= (call.bitCount - 1) \div 8

\* C16 witness: bitFind was called with a startIx beyond the last byte of a
\* vector that has bits of the wanted value.
C16_Witness ==
    /\ call.op = "bitFind"
    /\ call.bitCount > 0
    /\ call.startIx >= 8 * Len(vec.b)
    /\ \E i \in 0..(call.bitCount - 1) : BitIsSet(vec.b, i) = call.val
    /\ call.result = call.bitCount

\* C16, second case: bitFindClear on a vector of no bits
C16_WitnessEmpty ==
    /\ call.op = "bitFindClear"
    /\ call.bitCount = 0
    /\ call.startIx > 0
    /\ call.result = 0

----------------------------------------------------------------------------
(* common.c: fileOffsetSizeFindGap on a list of struct fileOffsetSize.  The *)
(* list is a sequence in list order; a pointer to an element is its index, *)
(* NULL is 0.                                                               *)

MaxList == 3
MaxOffset == 3
MaxExtent == 2

NULL == 0

\* fileOffsetSizeFindGap that compares the offsets only
RECURSIVE fileOffsetSizeFindGapNoSize(_, _)
fileOffsetSizeFindGapNoSize(l, pt) ==
    LET next == IF pt < Len(l) THEN pt + 1 ELSE NULL
    IN  IF next = NULL \/ l[next].offset # l[pt].offset
        THEN [beforeGap |-> pt, afterGap |-> next]
        ELSE fileOffsetSizeFindGapNoSize(l, next)

\* the loop of fileOffsetSizeFindGap, at element pt
RECURSIVE fileOffsetSizeFindGapFrom(_, _)
fileOffsetSizeFindGapFrom(l, pt) ==
    LET next == IF pt < Len(l) THEN pt + 1 ELSE NULL
    IN  IF next = NULL \/ l[next].offset # l[pt].offset + l[pt].size
        THEN [beforeGap |-> pt, afterGap |-> next]
        ELSE fileOffsetSizeFindGapFrom(l, next)

fileOffsetSizeFindGap(l) == fileOffsetSizeFindGapFrom(l, 1)

\* the lists given: one to MaxList extents
Extents == [offset : 0..MaxOffset, size : 0..MaxExtent]

InitGap ==
    /\ UdcUnused
    /\ bitsInByte = bitsInByteZero
    /\ inittedBitsInByte = FALSE
    /\ vec = NoVec
    /\ \E n \in 1..MaxList : list \in [1..n -> Extents]
    /\ OtherIdle
    /\ call = [op |-> "given"]

CallFileOffsetSizeFindGap ==
    /\ call.op = "given"
    /\ LET r == fileOffsetSizeFindGap(list)
       IN  call' = [op |-> "fileOffsetSizeFindGap",
                    beforeGap |-> r.beforeGap, afterGap |-> r.afterGap]
    /\ UNCHANGED <<bitsInByte, inittedBitsInByte, vec, list, otherVars>>
    /\ UNCHANGED udcVars

NextGap == CallFileOffsetSizeFindGap

SpecGap == InitGap /\ [][NextGap]_vars

\* element k of the list has no successor, or one that does not start where
\* element k ends
GapAfter(k) ==
    \/ k = Len(list)
    \/ list[k + 1].offset # list[k].offset + list[k].size

\* C17: on a non-empty list fileOffsetSizeFindGap returns as before the first
\* element, in list order, whose successor is missing or has an offset other
\* than its offset + size, and as after that successor, NULL when the whole
\* list is contiguous; all adjacent elements up to before are contiguous.
C17_FindGap ==
    call.op = "fileOffsetSizeFindGap" =>
        /\ call.beforeGap \in 1..Len(list)
        /\ GapAfter(call.beforeGap)
        /\ \A k \in 1..(call.beforeGap - 1) : ~GapAfter(k)
        /\ call.afterGap = IF call.beforeGap = Len(list) THEN NULL
                           ELSE call.beforeGap + 1

\* C17 witness: the first two extents are contiguous and not empty, the third
\* starts elsewhere: before is the second, after the third.
C17_Witness ==
    /\ call.op = "fileOffsetSizeFindGap"
    /\ Len(list) = 3
    /\ list[1].size > 0
    /\ list[2].offset = list[1].offset + list[1].size
    /\ call.beforeGap = 2
    /\ call.afterGap = 3

\* C17, second case: the whole list is contiguous
C17_WitnessContiguous ==
    /\ call.op = "fileOffsetSizeFindGap"
    /\ Len(list) = 3
    /\ list[1].size > 0
    /\ list[2].size > 0
    /\ call.beforeGap = 3
    /\ call.afterGap = NULL

----------------------------------------------------------------------------
(* One process, the clock, a source that changes between calls, and a      *)
(* bitmap file that is damaged while no handle is open                     *)

HeaderDamage == {"magic", "version", "short", "long", "size"}

\* the bitmap file is damaged: its magic, its version, the length of its bit
\* array, or a stored size that asks for another length
CorruptHeader(kind) ==
    /\ cacheExists
    /\ HeaderOk
    /\ \A p \in active : ~h[p].open /\ h[p].pc = "idle"
    /\ kind = "short" => Len(bits) > 0
    /\ hdr' = CASE kind = "magic" -> [hdr EXCEPT !.magic = "other"]
                [] kind = "version" -> [hdr EXCEPT !.version = @ + 1]
                [] kind = "size" -> [hdr EXCEPT !.remoteSize = @ + 8 * hdr.blockSize]
                [] OTHER -> hdr
    /\ bits' = CASE kind = "short" -> SubSeq(bits, 1, Len(bits) - 1)
                 [] kind = "long" -> Append(bits, 0)
                 [] OTHER -> bits
    /\ UNCHANGED libVars
    /\ UNCHANGED <<now, origin, changes, blockSize, cacheExists, data,
                   lastStaleCheckTime, active, h, fetchCount, aborted, logging, readLog>>

NextHeader ==
    \/ \E p \in active : udcFileOpen(p)
    \/ \E p \in active : udcFileOpenCorrupt(p)
    \/ \E p \in active : udcFileClose(p)
    \/ \E p \in active, n \in 1..MaxSize : udcReadBegin(p, n)
    \/ \E p \in active : FindExtent(p)
    \/ \E p \in active : FetchRange(p)
    \/ \E p \in active : WriteBlock(p)
    \/ \E p \in active : SetBits(p)
    \/ \E p \in active : Serve(p)
    \/ \E p \in active : Return(p)
    \/ Tick
    \/ \E s \in Sizes, t \in 1..(MaxChanges + 1) : OriginChange(s, t)
    \/ \E kind \in HeaderDamage : CorruptHeader(kind)

SpecHeader == Init /\ [][NextHeader]_vars

\* the bit array has a bit for every block of the stored size and no other
\* set bit, and the data file has the stored size
SizedForHeader ==
    /\ Len(bits) = (NumBlocks(hdr.remoteSize, hdr.blockSize) + 7) \div 8
    /\ \A i \in NumBlocks(hdr.remoteSize, hdr.blockSize)..(8 * Len(bits) - 1) :
           ~BitIsSet(bits, i)
    /\ Len(data) = hdr.remoteSize

\* the call of process p has just (re)created the cache entry
JustCreated(p) ==
    \/ h[p].pc = "done" /\ h[p].kind = "open" /\ h[p].ok /\ (~h[p].existed \/ h[p].stale)
    \/ h[p].pc = "find" /\ h[p].kind = "read" /\ h[p].stale /\ h[p].fetched = <<>>

\* C18: after Open and after every invalidation the bit vector has exactly
\* ceil(remoteSize/blockSize) bits, all clear on (re)creation, and the data
\* file has remoteSize bytes; whenever a handle is open the length of the bit
\* vector is consistent with the stored remoteSize; a bitmap file with a bad
\* magic or version, or with a bit vector of another length than its
\* remoteSize asks for, is rejected with CorruptCacheHeader and not used.
C18_BitVectorSizedForRemoteSize ==
    \A p \in active :
        /\ h[p].open => (cacheExists /\ HeaderOk /\ SizedForHeader)
        /\ JustCreated(p) =>
               /\ hdr = Stat
               /\ AllClear(bits, NumBlocks(origin.size, blockSize))
               /\ Len(data) = origin.size
        /\ (cacheExists /\ ~HeaderOk /\ h[p].pc = "done") =>
               /\ ~h[p].ok
               /\ h[p].error = "CorruptCacheHeader"
               /\ hdr = h[p].metaBefore
               /\ bits = h[p].bitsOld

\* C18 witness: an Open was rejected because the bit array of the bitmap
\* file, which has blocks cached, has another length than the stored size
\* asks for, with magic and version intact.
C18_Witness ==
    /\ h[1].pc = "done"
    /\ h[1].kind = "open"
    /\ h[1].error = "CorruptCacheHeader"
    /\ hdr.magic = HeaderMagic
    /\ hdr.version = HeaderVersion
    /\ \E i \in 0..(8 * Len(bits) - 1) : BitIsSet(bits, i)

\* C18, second case: a Read found the source changed to a size with another
\* number of blocks and has just recreated the entry, which had blocks cached
C18_WitnessResized ==
    /\ JustCreated(1)
    /\ h[1].kind = "read"
    /\ NumBlocks(h[1].metaBefore.remoteSize, blockSize) # NumBlocks(hdr.remoteSize, blockSize)
    /\ \E i \in 0..(8 * Len(h[1].bitsOld) - 1) : BitIsSet(h[1].bitsOld, i)

----------------------------------------------------------------------------
\* C19: bitAlloc(bitCount) returns a buffer of exactly ceil(bitCount/8)
\* bytes with every bit clear: bitReadOne is FALSE at every index in
\* [0, bitCount) and bitFindSet(b, 0, bitCount) returns bitCount.
C19_AllocIsZeroed ==
    (call.op \in {"bitAlloc", "bitFindSet"} /\ vec.sets = 0) =>
        /\ 8 * Len(vec.b) >= vec.n
        /\ 8 * (Len(vec.b) - 1) < vec.n
        /\ \A k \in 1..Len(vec.b) : vec.b[k] = 0
        /\ \A i \in 0..(vec.n - 1) : ~bitReadOne(vec.b, i)
        /\ bitFindSet(vec.b, 0, vec.n) = vec.n
        /\ (call.op = "bitFindSet" /\ call.startIx = 0) => call.result = vec.n

\* C19 witness: a vector whose number of bits is not a multiple of 8 was
\* allocated and, with nothing set, searched for a set bit from index 0.
C19_Witness ==
    /\ call.op = "bitFindSet"
    /\ vec.sets = 0
    /\ vec.n > 8
    /\ vec.n % 8 # 0
    /\ call.startIx = 0
    /\ call.result = vec.n

----------------------------------------------------------------------------
(* One process that seeks, asks for the offset and reads; call is the last *)
(* of these calls, with the seek made right before it                      *)

\* what the calls on the cursor must leave alone
CacheFiles == <<hdr, bits, data, fetchCount, lastStaleCheckTime>>

\* the last call, when it was a seek
LastSeek ==
    IF call.op \in {"udcSeek", "udcSeekCur"}
    THEN [op |-> call.op, offset |-> call.offset, from |-> call.from]
    ELSE [op |-> call.op]

CallUdcSeek(p, offset) ==
    /\ udcSeekStep(p, offset)
    /\ call' = [op |-> "udcSeek", offset |-> offset, from |-> h[p].pos,
                files |-> CacheFiles]
    /\ UNCHANGED <<bitsInByte, inittedBitsInByte, vec, list, otherVars>>

CallUdcSeekCur(p, offset) ==
    /\ udcSeekCurStep(p, offset)
    /\ call' = [op |-> "udcSeekCur", offset |-> offset, from |-> h[p].pos,
                files |-> CacheFiles]
    /\ UNCHANGED <<bitsInByte, inittedBitsInByte, vec, list, otherVars>>

CallUdcTell(p) ==
    /\ h[p].open
    /\ h[p].pc = "idle"
    /\ call.op # "udcTell"
    /\ call' = [op |-> "udcTell", result |-> udcTell(p), after |-> LastSeek,
                files |-> CacheFiles]
    /\ UNCHANGED <<bitsInByte, inittedBitsInByte, vec, list, otherVars>>
    /\ UNCHANGED udcVars

CallUdcRead(p, size) ==
    /\ h[p].open
    /\ h[p].pc = "idle"
    /\ ReadStart(p, size, <<>>)
    /\ call' = [op |-> "udcRead", size |-> size, after |-> LastSeek]
    /\ UNCHANGED <<bitsInByte, inittedBitsInByte, vec, list, otherVars>>

InitSeek == InitWith({1}, SmallBlockSize, {MaxSize}, FALSE)

NextSeek ==
    \/ \E p \in active : udcFileOpen(p)
    \/ \E p \in active, o \in 0..MaxSize : CallUdcSeek(p, o)
    \/ \E p \in active, d \in 0..MaxSize :
          /\ h[p].pos + d <= MaxSize
          /\ CallUdcSeekCur(p, d)
    \/ \E p \in active : CallUdcTell(p)
    \/ \E p \in active, n \in 1..MaxSize : CallUdcRead(p, n)
    \/ \E p \in active : FindExtent(p)
    \/ \E p \in active : FetchRange(p)
    \/ \E p \in active : WriteBlock(p)
    \/ \E p \in active : SetBits(p)
    \/ \E p \in active : Serve(p)
    \/ \E p \in active : Return(p)

SpecSeek == InitSeek /\ [][NextSeek]_vars

\* C20: udcSeek, udcSeekCur and udcTell make no remote fetch and change
\* neither the bitmap nor the data file; udcTell right after udcSeek(o)
\* returns o, and right after udcSeekCur(d) the position before it plus d;
\* the next Read starts at the cursor.
C20_SeekAndTellOnlyMoveTheCursor ==
    /\ call.op \in {"udcSeek", "udcSeekCur", "udcTell"} => CacheFiles = call.files
    /\ call.op = "udcSeek" => udcTell(1) = call.offset
    /\ call.op = "udcSeekCur" => udcTell(1) = call.from + call.offset
    /\ (call.op = "udcTell" /\ call.after.op = "udcSeek") =>
           call.result = call.after.offset
    /\ (call.op = "udcTell" /\ call.after.op = "udcSeekCur") =>
           call.result = call.after.from + call.after.offset
    /\ (call.op = "udcRead" /\ h[1].kind = "read" /\ call.after.op = "udcSeek") =>
           h[1].offset = call.after.offset
    /\ (call.op = "udcRead" /\ h[1].kind = "read" /\ call.after.op = "udcSeekCur") =>
           h[1].offset = call.after.from + call.after.offset

\* C20 witness: after a seek from the start of the file into the second
\* block, which is not cached, the Read fetched it and returned bytes from
\* the offset of the seek.
C20_Witness ==
    /\ call.op = "udcRead"
    /\ call.after.op = "udcSeek"
    /\ call.after.from = 0
    /\ call.after.offset = SmallBlockSize + 1
    /\ h[1].pc = "done"
    /\ h[1].ok
    /\ h[1].offset = SmallBlockSize + 1
    /\ h[1].bitsBefore = bitAlloc(NumBlocks(MaxSize, SmallBlockSize))
    /\ h[1].fetched # <<>>
    /\ Len(h[1].result) > 0

\* C20, second case: udcTell right after a udcSeekCur from inside the file,
\* with blocks cached
C20_WitnessTell ==
    /\ call.op = "udcTell"
    /\ call.after.op = "udcSeekCur"
    /\ call.after.from > 0
    /\ call.after.offset > 0
    /\ call.result = call.after.from + call.after.offset
    /\ \E i \in Blocks : BitIsSet(bits, i)

----------------------------------------------------------------------------
(* One process that opens, reads, closes and opens again, with a source    *)
(* that does not change; call is the last Open, Read or Close, with what   *)
(* the Close before it left on disk                                        *)

\* the Close whose files the last call still goes by, if any
ClosedBefore ==
    IF call.op = "udcFileClose" THEN [closed |-> TRUE, files |-> call.files]
    ELSE IF call.op \in {"udcFileOpen", "udcRead"} /\ call.closed
         THEN [closed |-> TRUE, files |-> call.files]
         ELSE [closed |-> FALSE, files |-> <<>>]

CallUdcFileClose(p) ==
    /\ udcFileCloseStep(p)
    /\ call' = [op |-> "udcFileClose", closed |-> TRUE, files |-> CacheFiles,
                existed |-> cacheExists]
    /\ UNCHANGED <<bitsInByte, inittedBitsInByte, vec, list, otherVars>>

CallUdcFileOpen(p) ==
    /\ udcFileOpenStep(p)
    /\ call' = [op |-> "udcFileOpen", closed |-> ClosedBefore.closed,
                files |-> ClosedBefore.files]
    /\ UNCHANGED <<bitsInByte, inittedBitsInByte, vec, list, otherVars>>

\* the first Read after an Open that follows a Close
CallUdcReadReopened(p, size) ==
    /\ h[p].open
    /\ h[p].pc = "idle"
    /\ call.op = "udcFileOpen"
    /\ ReadStart(p, size, <<>>)
    /\ call' = [op |-> "udcRead", closed |-> ClosedBefore.closed,
                files |-> ClosedBefore.files]
    /\ UNCHANGED <<bitsInByte, inittedBitsInByte, vec, list, otherVars>>

InitClose == InitWith({1}, SmallBlockSize, {MaxSize}, FALSE)

NextClose ==
    \/ \E p \in active : CallUdcFileOpen(p)
    \/ \E p \in active : CallUdcFileClose(p)
    \/ \E p \in active, o \in 0..MaxSize : udcSeek(p, o)
    \/ \E p \in active, n \in 1..MaxSize : CallUdcReadReopened(p, n)
    \/ \E p \in active, n \in 1..MaxSize :
          /\ call.op = "udcRead"
          /\ udcReadBegin(p, n)
    \/ \E p \in active : FindExtent(p)
    \/ \E p \in active : FetchRange(p)
    \/ \E p \in active, n \in 0..MaxSize : FetchRangeFail(p, n)
    \/ \E p \in active : WriteBlock(p)
    \/ \E p \in active : SetBits(p)
    \/ \E p \in active : Serve(p)
    \/ \E p \in active : Return(p)

SpecClose == InitClose /\ [][NextClose]_vars

\* the bits of the bitmap file at the last Close
ClosedBits == call.files[2]

\* C21: Read and Close never destroy cache state: after udcFileClose the
\* bitmap file, the data file and every set bit are as before it; after
\* opening the same URL again with the origin unchanged they still are, and
\* a Read of blocks that were cached at the Close makes no remote fetch and
\* returns the bytes of the source; no Read, Open or Close removes the entry.
C21_CloseKeepsTheCache ==
    /\ call.op # "none" => cacheExists
    /\ call.op = "udcFileClose" =>
           /\ call.existed
           /\ CacheFiles = call.files
    /\ (call.op = "udcFileOpen" /\ call.closed) => CacheFiles = call.files
    /\ (call.op = "udcRead" /\ call.closed) =>
           /\ Len(bits) = Len(ClosedBits)
           /\ \A i \in Blocks : BitIsSet(ClosedBits, i) =>
                  (BitIsSet(bits, i) /\ BlockHolds(i, origin))
           /\ (h[1].kind = "read" /\ \A i \in ReadBlocks(1) : BitIsSet(ClosedBits, i)) =>
                  /\ h[1].fetched = <<>>
                  /\ h[1].pc \notin {"fetch", "write", "setbits"}
                  /\ ReadOk(1) =>
                         h[1].result = SrcRange(origin, h[1].offset, h[1].end)

\* C21 witness: with two blocks cached, the handle was closed and opened
\* again, and a Read over both blocks returned their bytes without a fetch.
C21_Witness ==
    /\ call.op = "udcRead"
    /\ call.closed
    /\ ReadOk(1)
    /\ Cardinality(ReadBlocks(1)) = 2
    /\ \A i \in ReadBlocks(1) : BitIsSet(ClosedBits, i)
    /\ \E i \in Blocks : ~BitIsSet(bits, i)
    /\ h[1].fetched = <<>>
    /\ Len(h[1].result) > SmallBlockSize

----------------------------------------------------------------------------
(* udcCleanup over the entries of a cache root: every entry is a bitmap    *)
(* and sparseData pair with the time of its most recent access or          *)
(* modification and its size in bytes on disk                              *)

MaxEntries == 3
MaxEntrySize == 2

Entries == 1..MaxEntries

\* an entry that is not, or no longer, on disk
NoEntry == [present |-> FALSE, used |-> 0, size |-> 0]

\* udcCleanup: the entries that count as old, inclusive of the ones whose age
\* is exactly maxAge
udcCleanupOldInclusive(dir, t, maxAge) ==
    {e \in DOMAIN dir : dir[e].present /\ t - dir[e].used >= maxAge}

\* udcCleanup: the entries last accessed or modified more than maxAge ago
udcCleanupOld(dir, t, maxAge) ==
    {e \in DOMAIN dir : dir[e].present /\ t - dir[e].used > maxAge}

\* udcCleanup: the bytes of the first k entries that are among old
RECURSIVE udcCleanupBytes(_, _, _)
udcCleanupBytes(dir, old, k) ==
    IF k = 0 THEN 0
    ELSE udcCleanupBytes(dir, old, k - 1) + (IF k \in old THEN dir[k].size ELSE 0)

\* udcCleanup: the entries left on disk
udcCleanupLeft(dir, old, testOnly) ==
    IF testOnly THEN dir
    ELSE [e \in DOMAIN dir |-> IF e \in old THEN NoEntry ELSE dir[e]]

\* udcCleanup(cacheDir, maxDays, testOnly)
CallUdcCleanup(maxAge, testOnly) ==
    /\ call.op # "udcCleanup"
    /\ LET old == udcCleanupOld(cacheDir, now, maxAge)
       IN  /\ cacheDir' = udcCleanupLeft(cacheDir, old, testOnly)
           /\ call' = [op |-> "udcCleanup", maxAge |-> maxAge, testOnly |-> testOnly,
                       at |-> now, before |-> cacheDir,
                       result |-> udcCleanupBytes(cacheDir, old, Len(cacheDir))]
    /\ UNCHANGED <<bitsInByte, inittedBitsInByte, vec, list, th, lf>>
    /\ UNCHANGED udcVars

\* an Open or a Read of the entry: it counts as accessed now
Touch(e) ==
    /\ call.op # "udcCleanup"
    /\ cacheDir[e].present
    /\ cacheDir[e].used < now
    /\ cacheDir' = [cacheDir EXCEPT ![e].used = now]
    /\ call' = [op |-> "touch"]
    /\ UNCHANGED <<bitsInByte, inittedBitsInByte, vec, list, th, lf>>
    /\ UNCHANGED udcVars

InitCleanup ==
    /\ UdcUnused
    /\ bitsInByte = bitsInByteZero
    /\ inittedBitsInByte = FALSE
    /\ vec = NoVec
    /\ list = <<>>
    /\ cacheDir \in [Entries -> [present : {TRUE}, used : {0}, size : 1..MaxEntrySize]]
    /\ NoObjects
    /\ call = NoCall

NextCleanup ==
    \/ /\ call.op # "udcCleanup"
       /\ Tick
    \/ \E e \in Entries : Touch(e)
    \/ \E maxAge \in 0..MaxTime, testOnly \in BOOLEAN : CallUdcCleanup(maxAge, testOnly)

SpecCleanup == InitCleanup /\ [][NextCleanup]_vars

\* the entries of a directory that are older than maxAge at time t
OlderThan(dir, t, maxAge) ==
    {e \in Entries : dir[e].present /\ dir[e].used + maxAge < t}

\* the sizes of the entries of a set, added up
RECURSIVE TotalSize(_, _)
TotalSize(dir, S) ==
    IF S = {} THEN 0
    ELSE LET e == CHOOSE x \in S : TRUE
         IN  dir[e].size + TotalSize(dir, S \ {e})

\* C22: udcCleanup with testOnly false deletes exactly the entries whose most
\* recent access or modification is older than maxAge and returns the exact
\* total of their sizes; with testOnly true it deletes nothing and returns
\* the same total; in both modes the entries accessed more recently are as
\* they were.
C22_CleanupDeletesTheOld ==
    call.op = "udcCleanup" =>
        LET old == OlderThan(call.before, call.at, call.maxAge)
        IN  /\ call.result = TotalSize(call.before, old)
            /\ \A e \in Entries \ old : cacheDir[e] = call.before[e]
            /\ \A e \in old :
                   IF call.testOnly THEN cacheDir[e] = call.before[e]
                   ELSE ~cacheDir[e].present

\* C22 witness: a cleanup that deleted two entries of different sizes and
\* kept a third whose age was exactly maxAge.
C22_Witness ==
    /\ call.op = "udcCleanup"
    /\ ~call.testOnly
    /\ call.maxAge > 0
    /\ Cardinality(OlderThan(call.before, call.at, call.maxAge)) = 2
    /\ call.result = 1 + MaxEntrySize
    /\ \E e \in Entries : /\ cacheDir[e].present
                          /\ call.at - cacheDir[e].used = call.maxAge

\* C22 witness of the test mode: two entries were old, none was deleted and
\* the total of their sizes was returned.
C22_WitnessTestOnly ==
    /\ call.op = "udcCleanup"
    /\ call.testOnly
    /\ Cardinality(OlderThan(call.before, call.at, call.maxAge)) = 2
    /\ call.result > MaxEntrySize
    /\ cacheDir = call.before

----------------------------------------------------------------------------
(* The cache directory of a URL: strings are sequences of characters       *)

MaxUrlLen == 3
MaxOtherLen == 1

\* the characters the URLs are made of, with their ASCII codes
CharCode == [c \in {"a", "/", "?", "Q", "3", "F"} |->
                CASE c = "a" -> 97 [] c = "/" -> 47 [] c = "?" -> 63
                  [] c = "Q" -> 81 [] c = "3" -> 51 [] c = "F" -> 70]

UrlChars == DOMAIN CharCode

HexDigits == <<"0", "1", "2", "3", "4", "5", "6", "7",
               "8", "9", "A", "B", "C", "D", "E", "F">>

\* the characters a file name keeps as they are; Q is not one of them
QKept == {"a", "3", "F", "/"}

\* Q-encoding of one character that leaves a Q as it is
qEncodeCharPlainQ(c) ==
    IF c \in QKept \cup {"Q"} THEN <<c>>
    ELSE <<"Q", HexDigits[(CharCode[c] \div 16) + 1], HexDigits[(CharCode[c] % 16) + 1]>>

\* Q-encoding of one character: Q and two hexadecimal digits unless kept
qEncodeChar(c) ==
    IF c \in QKept THEN <<c>>
    ELSE <<"Q", HexDigits[(CharCode[c] \div 16) + 1], HexDigits[(CharCode[c] % 16) + 1]>>

RECURSIVE qEncode(_)
qEncode(str) ==
    IF str = <<>> THEN <<>>
    ELSE qEncodeChar(Head(str)) \o qEncode(Tail(str))

\* the index of the first ':' of a string, 0 if there is none
RECURSIVE ColonAt(_, _)
ColonAt(str, i) ==
    IF i > Len(str) THEN 0
    ELSE IF str[i] = ":" THEN i ELSE ColonAt(str, i + 1)

\* udcParseUrl: protocol and Q-encoded remainder of protocol://remainder
udcParseUrl(url) ==
    LET colon == ColonAt(url, 1)
    IN  [protocol |-> SubSeq(url, 1, colon - 1),
         afterProtocol |-> qEncode(SubSeq(url, colon + 3, Len(url)))]

\* rootCacheDir/<protocol>/<escaped remainder>
mapUrlToCacheDir(url, rootCacheDir) ==
    LET parsed == udcParseUrl(url)
    IN  rootCacheDir \o <<"/">> \o parsed.protocol \o <<"/">> \o parsed.afterProtocol

Protocols == {<<"h", "t", "t", "p">>, <<"f", "t", "p">>}

RootCacheDir == <<"/", "t", "m", "p">>

\* the strings over UrlChars of 1 to n characters
Remainders(n) == UNION {[1..k -> UrlChars] : k \in 1..n}

Urls(n) == {p \o <<":", "/", "/">> \o r : p \in Protocols, r \in Remainders(n)}

InitUrl ==
    /\ UdcUnused
    /\ bitsInByte = bitsInByteZero
    /\ inittedBitsInByte = FALSE
    /\ vec = NoVec
    /\ list = <<>>
    /\ OtherIdle
    /\ \E u \in Urls(MaxUrlLen), o \in Urls(MaxOtherLen) :
           call = [op |-> "given", url |-> u, other |-> o]

\* the cache directory of url, asked for twice, and the one of other
CallMapUrlToCacheDir ==
    /\ call.op = "given"
    /\ call' = [op |-> "mapUrlToCacheDir", url |-> call.url, other |-> call.other,
                path |-> mapUrlToCacheDir(call.url, RootCacheDir),
                again |-> mapUrlToCacheDir(call.url, RootCacheDir),
                otherPath |-> mapUrlToCacheDir(call.other, RootCacheDir)]
    /\ UNCHANGED <<bitsInByte, inittedBitsInByte, vec, list, otherVars>>
    /\ UNCHANGED udcVars

NextUrl == CallMapUrlToCacheDir

SpecUrl == InitUrl /\ [][NextUrl]_vars

\* how often a character occurs in a string
RECURSIVE Occurs(_, _)
Occurs(c, str) ==
    IF str = <<>> THEN 0
    ELSE (IF Head(str) = c THEN 1 ELSE 0) + Occurs(c, Tail(str))

\* the part of a URL after protocol://
Remainder(url) == SubSeq(url, ColonAt(url, 1) + 3, Len(url))

C23_WitnessLevels ==
    /\ call.op = "mapUrlToCacheDir"
    /\ Remainder(call.url) = <<"/", "?", "/">>
    /\ call.path = RootCacheDir \o <<"/", "h", "t", "t", "p", "/", "/", "Q", "3", "F", "/">>

----------------------------------------------------------------------------
(* linefile.c: lineFileCheckAllIntsNoAbort.  A string is the sequence of    *)
(* the codes of its characters, without the 0 that ends it; an unsigned    *)
(* long long is the sequence of its eight bytes, the lowest first          *)

MaxStrLen == 3

\* the character of a decimal digit, and the string of a sequence of digits
Dec(digits) == [i \in DOMAIN digits |-> digits[i] + 48]

\* *p: the character at index i, the terminating 0 past the end
CharAt(str, i) == IF i <= Len(str) THEN str[i] ELSE 0

\* unsigned long long res = 0
U64Zero == [i \in 1..8 |-> 0]

\* x * 10 in the width of x
Mul10(x) ==
    LET carry[i \in 0..Len(x)] ==
            IF i = 0 THEN 0 ELSE (x[i] * 10 + carry[i - 1]) \div 256
    IN  [i \in 1..Len(x) |-> (x[i] * 10 + carry[i - 1]) % 256]

\* x + d in the width of x, for d below 256
AddSmall(x, d) ==
    LET carry[i \in 0..Len(x)] ==
            IF i = 0 THEN d ELSE (x[i] + carry[i - 1]) \div 256
    IN  [i \in 1..Len(x) |-> (x[i] + carry[i - 1]) % 256]

\* x < y for unsigned numbers of the same width, from byte i down
RECURSIVE LessFrom(_, _, _)
LessFrom(x, y, i) ==
    IF i = 0 THEN FALSE
    ELSE IF x[i] # y[i] THEN x[i] < y[i] ELSE LessFrom(x, y, i - 1)

Less(x, y) == LessFrom(x, y, Len(x))

\* -x in the width of x
Negated(x) == AddSmall([i \in 1..Len(x) |-> 255 - x[i]], 1)

\* limit = 0xFFFFFFFFFFFFFFFFULL >> (8*(8-byteCount)), halved if signed,
\* one more after a minus sign
LimitOf(isSigned, byteCount, isMinus) ==
    LET all == [i \in 1..8 |-> IF i <= byteCount THEN 255 ELSE 0]
        half == [all EXCEPT ![byteCount] = 127]
    IN  IF ~isSigned THEN all
        ELSE IF isMinus THEN AddSmall(half, 1) ELSE half

\* the while loop over the digits, from index i: where it stopped, the
\* result, and whether it returned 2
RECURSIVE ScanDigits(_, _, _, _, _)
ScanDigits(str, i, res, oldRes, limit) ==
    IF ~(CharAt(str, i) >= 48 /\ CharAt(str, i) <= 57)
    THEN [overflowed |-> FALSE, at |-> i, res |-> res]
    ELSE LET times == Mul10(res)
             plus == AddSmall(times, CharAt(str, i) - 48)
         IN  IF Less(times, oldRes) \/ Less(plus, times) \/ Less(limit, plus)
             THEN [overflowed |-> TRUE, at |-> i, res |-> plus]
             ELSE ScanDigits(str, i + 1, plus, plus, limit)

\* what is stored in *val: the low byteCount bytes of res or of -res
StoredVal(res, byteCount, isMinus) ==
    SubSeq(IF isMinus THEN Negated(res) ELSE res, 1, byteCount)

\* lineFileCheckAllIntsNoAbort: the value returned and the bytes stored in
\* *val, none if it returns an error
lineFileCheckAllIntsNoAbort(str, isSigned, byteCount, noNeg) ==
    LET minus == CharAt(str, 1) = 45
    IN  IF minus /\ isSigned /\ noNeg THEN [result |-> 4, val |-> <<>>]
        ELSE IF minus /\ ~isSigned THEN [result |-> 3, val |-> <<>>]
        ELSE LET p0 == IF minus THEN 2 ELSE 1
                 scan == ScanDigits(str, p0, U64Zero, U64Zero,
                                    LimitOf(isSigned, byteCount, minus))
             IN  IF scan.overflowed THEN [result |-> 2, val |-> <<>>]
                 ELSE IF CharAt(str, scan.at) # 0 THEN [result |-> 1, val |-> <<>>]
                 ELSE IF scan.at = p0 THEN [result |-> 1, val |-> <<>>]
                 ELSE [result |-> 0, val |-> StoredVal(scan.res, byteCount, minus)]

ByteCounts == {1, 2, 4, 8}

\* the characters - 0 7 x
TextChars == {45, 48, 55, 120}

\* every string of up to MaxStrLen of these characters
ShortStrings == UNION {[1..n -> TextChars] : n \in 0..MaxStrLen}

\* the numbers at the ends of the ranges of the eight types, and some beyond
\* the range of an unsigned long long
EdgeNumbers == {
    Dec(<<1, 2, 7>>),
    Dec(<<1, 2, 8>>),
    Dec(<<1, 2, 9>>),
    Dec(<<2, 5, 5>>),
    Dec(<<2, 5, 6>>),
    Dec(<<3, 2, 7, 6, 7>>),
    Dec(<<3, 2, 7, 6, 8>>),
    Dec(<<3, 2, 7, 6, 9>>),
    Dec(<<6, 5, 5, 3, 5>>),
    Dec(<<6, 5, 5, 3, 6>>),
    Dec(<<2, 1, 4, 7, 4, 8, 3, 6, 4, 7>>),
    Dec(<<2, 1, 4, 7, 4, 8, 3, 6, 4, 8>>),
    Dec(<<2, 1, 4, 7, 4, 8, 3, 6, 4, 9>>),
    Dec(<<4, 2, 9, 4, 9, 6, 7, 2, 9, 5>>),
    Dec(<<4, 2, 9, 4, 9, 6, 7, 2, 9, 6>>),
    Dec(<<9, 2, 2, 3, 3, 7, 2, 0, 3, 6, 8, 5, 4, 7, 7, 5, 8, 0, 7>>),
    Dec(<<9, 2, 2, 3, 3, 7, 2, 0, 3, 6, 8, 5, 4, 7, 7, 5, 8, 0, 8>>),
    Dec(<<9, 2, 2, 3, 3, 7, 2, 0, 3, 6, 8, 5, 4, 7, 7, 5, 8, 0, 9>>),
    Dec(<<1, 8, 4, 4, 6, 7, 4, 4, 0, 7, 3, 7, 0, 9, 5, 5, 1, 6, 1, 5>>),
    Dec(<<1, 8, 4, 4, 6, 7, 4, 4, 0, 7, 3, 7, 0, 9, 5, 5, 1, 6, 1, 6>>),
    Dec(<<2, 1, 0, 0, 0, 0, 0, 0, 0, 0, 0, 0, 0, 0, 0, 0, 0, 0, 0, 0>>),
    Dec(<<2, 8, 4, 4, 6, 7, 4, 4, 0, 7, 3, 7, 0, 9, 5, 5, 1, 6, 1, 6>>),
    Dec(<<3, 6, 8, 9, 3, 4, 8, 8, 1, 4, 7, 4, 1, 9, 1, 0, 3, 2, 3, 7>>),
    Dec(<<9, 9, 9, 9, 9, 9, 9, 9, 9, 9, 9, 9, 9, 9, 9, 9, 9, 9, 9, 9>>)
}

\* numbers with a sign, leading zeros or a character after them
EdgeStrings ==
    EdgeNumbers
    \cup {<<45>> \o n : n \in EdgeNumbers}
    \cup {<<48, 48>> \o n : n \in EdgeNumbers}
    \cup {n \o <<120>> : n \in EdgeNumbers}

InitInts ==
    /\ UdcUnused
    /\ bitsInByte = bitsInByteZero
    /\ inittedBitsInByte = FALSE
    /\ vec = NoVec
    /\ list = <<>>
    /\ OtherIdle
    /\ \E str \in ShortStrings \cup EdgeStrings, isSigned \in BOOLEAN,
          byteCount \in ByteCounts, noNeg \in BOOLEAN :
           call = [op |-> "given", s |-> str, isSigned |-> isSigned,
                   byteCount |-> byteCount, noNeg |-> noNeg]

CallLineFileCheckAllIntsNoAbort ==
    /\ call.op = "given"
    /\ LET r == lineFileCheckAllIntsNoAbort(call.s, call.isSigned, call.byteCount,
                                            call.noNeg)
       IN  call' = [op |-> "lineFileCheckAllIntsNoAbort", s |-> call.s,
                    isSigned |-> call.isSigned, byteCount |-> call.byteCount,
                    noNeg |-> call.noNeg, result |-> r.result, val |-> r.val]
    /\ UNCHANGED <<bitsInByte, inittedBitsInByte, vec, list, otherVars>>
    /\ UNCHANGED udcVars

NextInts == CallLineFileCheckAllIntsNoAbort

SpecInts == InitInts /\ [][NextInts]_vars


\* the characters of a string are all decimal digits
AllDigits(str) == \A i \in DOMAIN str : str[i] >= 48 /\ str[i] <= 57

HasMinus(str) == str # <<>> /\ str[1] = 45

\* a string without its minus sign
Unsigned(str) == IF HasMinus(str) THEN Tail(str) ELSE str

RECURSIVE StripZeros(_)
StripZeros(str) ==
    IF str # <<>> /\ str[1] = 48 THEN StripZeros(Tail(str)) ELSE str

\* a <= b for two numbers written in decimal digits without leading zeros
RECURSIVE DigitsLessEq(_, _)
DigitsLessEq(a, b) ==
    IF Len(a) # Len(b) THEN Len(a) < Len(b)
    ELSE IF a = <<>> THEN TRUE
    ELSE IF a[1] # b[1] THEN a[1] < b[1]
    ELSE DigitsLessEq(Tail(a), Tail(b))

\* the largest unsigned, positive and negative magnitudes of the types of
\* 1, 2, 4 and 8 bytes
U1 == Dec(<<2, 5, 5>>)
P1 == Dec(<<1, 2, 7>>)
M1 == Dec(<<1, 2, 8>>)
U2 == Dec(<<6, 5, 5, 3, 5>>)
P2 == Dec(<<3, 2, 7, 6, 7>>)
M2 == Dec(<<3, 2, 7, 6, 8>>)
U4 == Dec(<<4, 2, 9, 4, 9, 6, 7, 2, 9, 5>>)
P4 == Dec(<<2, 1, 4, 7, 4, 8, 3, 6, 4, 7>>)
M4 == Dec(<<2, 1, 4, 7, 4, 8, 3, 6, 4, 8>>)
U8 == Dec(<<1, 8, 4, 4, 6, 7, 4, 4, 0, 7, 3, 7, 0, 9, 5, 5, 1, 6, 1, 5>>)
P8 == Dec(<<9, 2, 2, 3, 3, 7, 2, 0, 3, 6, 8, 5, 4, 7, 7, 5, 8, 0, 7>>)
M8 == Dec(<<9, 2, 2, 3, 3, 7, 2, 0, 3, 6, 8, 5, 4, 7, 7, 5, 8, 0, 8>>)

\* the largest magnitude of each type, in decimal
LargestOf(isSigned, byteCount, isMinus) ==
    IF ~isSigned
    THEN CASE byteCount = 1 -> U1 [] byteCount = 2 -> U2
           [] byteCount = 4 -> U4 [] byteCount = 8 -> U8
    ELSE IF ~isMinus
    THEN CASE byteCount = 1 -> P1 [] byteCount = 2 -> P2
           [] byteCount = 4 -> P4 [] byteCount = 8 -> P8
    ELSE CASE byteCount = 1 -> M1 [] byteCount = 2 -> M2
           [] byteCount = 4 -> M4 [] byteCount = 8 -> M8

\* a number in bytes, lowest first, written in decimal without leading zeros
RECURSIVE ToDecimal(_)
ToDecimal(x) ==
    IF \A i \in DOMAIN x : x[i] = 0 THEN <<>>
    ELSE LET rest[i \in 1..(Len(x) + 1)] ==
                 IF i = Len(x) + 1 THEN 0 ELSE (rest[i + 1] * 256 + x[i]) % 10
             tenth == [i \in 1..Len(x) |-> (rest[i + 1] * 256 + x[i]) \div 10]
         IN  ToDecimal(tenth) \o <<48 + rest[1]>>

\* the stored bytes read back as a number of the type: sign and magnitude
ReadBack(val, isSigned) ==
    IF isSigned /\ val[Len(val)] >= 128
    THEN [negative |-> TRUE, digits |-> ToDecimal(Negated(val))]
    ELSE [negative |-> FALSE, digits |-> ToDecimal(val)]

\* s is a number of the type: digits, after a minus sign where one is allowed
IsNumber(str, isSigned, noNeg) ==
    /\ Unsigned(str) # <<>>
    /\ AllDigits(Unsigned(str))
    /\ HasMinus(str) => (isSigned /\ ~noNeg)

InRange(str, isSigned, byteCount) ==
    DigitsLessEq(StripZeros(Unsigned(str)),
                 LargestOf(isSigned, byteCount, HasMinus(str)))

\* the digits a string starts with, after its minus sign if it has one
RECURSIVE DigitPrefix(_)
DigitPrefix(str) ==
    IF str # <<>> /\ str[1] >= 48 /\ str[1] <= 57
    THEN <<str[1]>> \o DigitPrefix(Tail(str))
    ELSE <<>>

\* what the claim says of one call
AllIntsAsClaimed(c) ==
    LET number == IsNumber(c.s, c.isSigned, c.noNeg)
        fits == InRange(c.s, c.isSigned, c.byteCount)
        prefix == DigitPrefix(Unsigned(c.s))
        prefixFits == DigitsLessEq(StripZeros(prefix),
                                   LargestOf(c.isSigned, c.byteCount, HasMinus(c.s)))
    IN  /\ c.result = 0 <=> (number /\ fits)
        /\ c.result = 0 =>
               /\ Len(c.val) = c.byteCount
               /\ ReadBack(c.val, c.isSigned).digits = StripZeros(Unsigned(c.s))
               /\ ReadBack(c.val, c.isSigned).negative =>  HasMinus(c.s)
               /\ (HasMinus(c.s) /\ StripZeros(Unsigned(c.s)) # <<>>) =>
                      ReadBack(c.val, c.isSigned).negative
        /\ (number /\ ~fits) => c.result = 2
        /\ (HasMinus(c.s) /\ ~c.isSigned) => c.result = 3
        /\ (HasMinus(c.s) /\ c.isSigned /\ c.noNeg) => c.result = 4
        /\ (~number /\ (HasMinus(c.s) => (c.isSigned /\ ~c.noNeg))) =>
               IF prefixFits THEN c.result = 1 ELSE c.result \in {1, 2}

\* C24: lineFileCheckAllIntsNoAbort returns 0 and stores the exact value if
\* and only if s is a non-empty string of decimal digits, after a '-' where
\* the type is signed and noNeg is not set, whose value the type can hold;
\* it returns 2 for every such string whose value is out of range, the
\* 8-byte types where the 64-bit accumulator wraps included; 1 for the empty
\* string, a lone '-' or trailing characters; 3 for a leading '-' on an
\* unsigned type; 4 for a leading '-' on a signed type with noNeg set.
C24_AllInts ==
    call.op = "lineFileCheckAllIntsNoAbort" => AllIntsAsClaimed(call)

\* the digits of the call are few enough for res * 10 never to pass 2^64
NoWrap == Len(StripZeros(DigitPrefix(Unsigned(call.s)))) < 20 \/ call.byteCount < 8

\* C24, as far as it holds: the same statement for the types of 1, 2 and 4
\* bytes, and for the 8-byte types when the number has fewer than 20 digits.
C24_AllIntsWithoutWrap ==
    (call.op = "lineFileCheckAllIntsNoAbort" /\ NoWrap) => AllIntsAsClaimed(call)

\* C24 witness: the smallest 8-byte signed number was accepted and stored.
C24_WitnessStored ==
    /\ call.op = "lineFileCheckAllIntsNoAbort"
    /\ call.s = <<45>> \o M8
    /\ call.result = 0
    /\ call.val = <<0, 0, 0, 0, 0, 0, 0, 128>>

\* C24 witness of the wrap: a number beyond the range of an unsigned long
\* long was accepted as one, and another value stored.
C24_WitnessWrapped ==
    /\ call.op = "lineFileCheckAllIntsNoAbort"
    /\ call.byteCount = 8
    /\ ~call.isSigned
    /\ AllDigits(call.s)
    /\ ~InRange(call.s, FALSE, 8)
    /\ call.result = 0
    /\ ToDecimal(call.val) # call.s

----------------------------------------------------------------------------
(* dnautil.c: isAllNt.  Characters are their codes, 0 to 255               *)

MaxSeqLen == 3

\* initNtChars: ntChars[c] for the character with code c, element c + 1
ntChars ==
    [k \in 1..256 |->
        CASE k - 1 \in {97, 65} -> 97
          [] k - 1 \in {99, 67} -> 99
          [] k - 1 \in {103, 71} -> 103
          [] k - 1 \in {116, 84} -> 116
          [] k - 1 \in {110, 78} -> 110
          [] k - 1 \in {117, 85} -> 117
          [] k - 1 = 45 -> 110
          [] OTHER -> 0]

\* ntChars[(int)seq[i]]: what the read can give.  A character above 127 is
\* negative where char is signed, and the read is then before the array
ntCharsRead(c) == IF c < 128 THEN {ntChars[c + 1]} ELSE {0, 1}

\* isAllNt: the loop from index i (counted from 0), the results it can give
RECURSIVE isAllNtFrom(_, _, _)
isAllNtFrom(seq, size, i) ==
    IF ~(i < size - 1) THEN {TRUE}
    ELSE UNION {IF v = 0 THEN {FALSE} ELSE isAllNtFrom(seq, size, i + 1) :
                v \in ntCharsRead(seq[i + 1])}

isAllNt(seq, size) == isAllNtFrom(seq, size, 0)

\* the characters A c - X and one above 127
SeqChars == {65, 99, 45, 88, 200}

InitNt ==
    /\ UdcUnused
    /\ bitsInByte = bitsInByteZero
    /\ inittedBitsInByte = FALSE
    /\ vec = NoVec
    /\ list = <<>>
    /\ OtherIdle
    /\ \E n \in 0..MaxSeqLen : \E seq \in [1..n -> SeqChars] : \E size \in 0..n :
           call = [op |-> "given", seq |-> seq, size |-> size]

CallIsAllNt ==
    /\ call.op = "given"
    /\ \E r \in isAllNt(call.seq, call.size) :
           call' = [op |-> "isAllNt", seq |-> call.seq, size |-> call.size,
                    result |-> r]
    /\ UNCHANGED <<bitsInByte, inittedBitsInByte, vec, list, otherVars>>
    /\ UNCHANGED udcVars

NextNt == CallIsAllNt

SpecNt == InitNt /\ [][NextNt]_vars

\* A C G T N U in both cases, and '-'
NtLetters == {65, 67, 71, 84, 78, 85, 97, 99, 103, 116, 110, 117, 45}

\* C25: isAllNt(seq, size) returns TRUE if and only if every one of the size
\* characters seq[0..size-1], the last one included, is one of A, C, G, T,
\* N, U in either case or '-'.
C25_AllNt ==
    call.op = "isAllNt" =>
        (call.result <=> \A i \in 1..call.size : call.seq[i] \in NtLetters)

\* C25, as far as it holds: when no character is above 127, isAllNt returns
\* TRUE if and only if every character but the last of the size characters
\* is one of the letters.
C25_AllNtButTheLast ==
    (call.op = "isAllNt" /\ \A i \in 1..call.size : call.seq[i] < 128) =>
        (call.result <=> \A i \in 1..(call.size - 1) : call.seq[i] \in NtLetters)

\* C25 witness: TRUE was returned for two characters of which the last is
\* an X.
C25_WitnessLastNotRead ==
    /\ call.op = "isAllNt"
    /\ call.size = 2
    /\ call.seq = <<65, 88>>
    /\ call.result

----------------------------------------------------------------------------
(* twoBit.c: twoBitParseRange.  rangeSpec is a buffer of character codes,  *)
(* ended by a 0 that is not stored; a char * is an index into it           *)

MaxSpecLen == 7

\* strrchr(str, c): the index of the last c, NULL if there is none
RECURSIVE LastIndexFrom(_, _, _)
LastIndexFrom(str, c, i) ==
    IF i = 0 THEN NULL
    ELSE IF str[i] = c THEN i ELSE LastIndexFrom(str, c, i - 1)

strrchr(str, c) == LastIndexFrom(str, c, Len(str))

\* strchr(s, c) for the string that starts at index i of the buffer
RECURSIVE strchr(_, _, _)
strchr(buf, i, c) ==
    IF CharAt(buf, i) = 0 THEN NULL
    ELSE IF buf[i] = c THEN i ELSE strchr(buf, i + 1, c)

\* strtol: the digits from index i on, added to n: the number and where the
\* digits end
RECURSIVE strtolDigits(_, _, _)
strtolDigits(buf, i, n) ==
    IF CharAt(buf, i) >= 48 /\ CharAt(buf, i) <= 57
    THEN strtolDigits(buf, i + 1, n * 10 + (buf[i] - 48))
    ELSE [n |-> n, e |-> i]

\* strtol(s, &e, 0) for the string at index i, which has no blank and no
\* digit 0 in it: a sign, then decimal digits; e = s if there is no digit
strtol(buf, i) ==
    LET signed == CharAt(buf, i) \in {43, 45}
        digits == strtolDigits(buf, IF signed THEN i + 1 ELSE i, 0)
    IN  IF digits.e = (IF signed THEN i + 1 ELSE i) THEN [n |-> 0, e |-> i]
        ELSE [n |-> IF CharAt(buf, i) = 45 THEN 0 - digits.n ELSE digits.n,
              e |-> digits.e]

\* *s++ = 0
ZeroAt(buf, i) == [buf EXCEPT ![i] = 0]

\* twoBitParseRange: the value returned, the buffer as it is left, and what
\* is stored in *retFile, *retSeq, *retStart and *retEnd
twoBitParseRange(rangeSpec) ==
    LET slash == strrchr(rangeSpec, 47)
        colon1 == strchr(rangeSpec, IF slash = NULL THEN 1 ELSE slash + 1, 58)
        default == [result |-> FALSE, buf |-> rangeSpec, retFile |-> 1,
                    retSeq |-> NULL, retStart |-> 0, retEnd |-> 0]
    IN  IF colon1 = NULL THEN default
        ELSE
        LET buf1 == ZeroAt(rangeSpec, colon1)
            seqSet == [default EXCEPT !.buf = buf1, !.retSeq = colon1 + 1]
            colon2 == strchr(buf1, colon1 + 1, 58)
        IN  IF colon2 = NULL THEN [seqSet EXCEPT !.result = TRUE]
            ELSE
            LET buf2 == ZeroAt(buf1, colon2)
                first == strtol(buf2, colon2 + 1)
                second == strtol(buf2, first.e + 1)
            IN  IF CharAt(buf2, first.e) # 45
                THEN [seqSet EXCEPT !.buf = buf2]
                ELSE IF CharAt(buf2, second.e) # 0
                THEN [seqSet EXCEPT !.buf = buf2, !.retStart = first.n]
                ELSE [seqSet EXCEPT !.result = TRUE, !.buf = buf2,
                                    !.retStart = first.n, !.retEnd = second.n]

\* the characters : - / a 1
SpecChars == {58, 45, 47, 97, 49}

InitRange ==
    /\ UdcUnused
    /\ bitsInByte = bitsInByteZero
    /\ inittedBitsInByte = FALSE
    /\ vec = NoVec
    /\ list = <<>>
    /\ OtherIdle
    /\ \E n \in 0..MaxSpecLen : \E str \in [1..n -> SpecChars] :
           call = [op |-> "given", rangeSpec |-> str]

CallTwoBitParseRange ==
    /\ call.op = "given"
    /\ LET r == twoBitParseRange(call.rangeSpec)
       IN  call' = [op |-> "twoBitParseRange", rangeSpec |-> call.rangeSpec,
                    result |-> r.result, buf |-> r.buf, retFile |-> r.retFile,
                    retSeq |-> r.retSeq, retStart |-> r.retStart,
                    retEnd |-> r.retEnd]
    /\ UNCHANGED <<bitsInByte, inittedBitsInByte, vec, list, otherVars>>
    /\ UNCHANGED udcVars

NextRange == CallTwoBitParseRange

SpecRange == InitRange /\ [][NextRange]_vars

\* the string a char * points to: the characters from index i to the next 0
RECURSIVE StringAt(_, _)
StringAt(buf, i) ==
    IF CharAt(buf, i) = 0 THEN <<>> ELSE <<buf[i]>> \o StringAt(buf, i + 1)

\* the value of a string of decimal digits
RECURSIVE DecimalValue(_)
DecimalValue(str) ==
    IF str = <<>> THEN 0
    ELSE 10 * DecimalValue(SubSeq(str, 1, Len(str) - 1)) + (str[Len(str)] - 48)

IsFileName(str) ==
    \A i \in DOMAIN str : str[i] = 58 => \E j \in (i + 1)..Len(str) : str[j] = 47

IsSeqName(str) == \A i \in DOMAIN str : str[i] \notin {58, 47}

IsCount(str) == str # <<>> /\ AllDigits(str)

\* rangeSpec is file:seqName, with the ':' at index i
IsShortForm(str, i) ==
    /\ str[i] = 58
    /\ IsFileName(SubSeq(str, 1, i - 1))
    /\ IsSeqName(SubSeq(str, i + 1, Len(str)))

\* rangeSpec is file:seqName:start-end, with ':' at i and j and '-' at k
IsLongForm(str, i, j, k) ==
    /\ i < j /\ j < k
    /\ str[i] = 58 /\ str[j] = 58 /\ str[k] = 45
    /\ IsFileName(SubSeq(str, 1, i - 1))
    /\ IsSeqName(SubSeq(str, i + 1, j - 1))
    /\ IsCount(SubSeq(str, j + 1, k - 1))
    /\ IsCount(SubSeq(str, k + 1, Len(str)))

\* the final path component of rangeSpec has a ':'
HasSeqName(str) ==
    \E i \in DOMAIN str : str[i] = 58 /\ \A j \in (i + 1)..Len(str) : str[j] # 47

\* what holds of every call whether it returns TRUE or FALSE
ParsedAsClaimed(c) ==
    LET str == c.rangeSpec
    IN  /\ \A i \in DOMAIN str : str[i] = 58 =>
           \A j \in (i + 1)..Len(str) : str[j] = 58 =>
           \A k \in (j + 1)..Len(str) : IsLongForm(str, i, j, k) =>
               /\ c.result
               /\ StringAt(c.buf, c.retFile) = SubSeq(str, 1, i - 1)
               /\ c.retSeq # NULL
               /\ StringAt(c.buf, c.retSeq) = SubSeq(str, i + 1, j - 1)
               /\ c.retStart = DecimalValue(SubSeq(str, j + 1, k - 1))
               /\ c.retEnd = DecimalValue(SubSeq(str, k + 1, Len(str)))
        /\ \A i \in DOMAIN str : IsShortForm(str, i) =>
               /\ c.result
               /\ StringAt(c.buf, c.retFile) = SubSeq(str, 1, i - 1)
               /\ c.retSeq # NULL
               /\ StringAt(c.buf, c.retSeq) = SubSeq(str, i + 1, Len(str))
               /\ c.retStart = 0
               /\ c.retEnd = 0
        /\ c.retFile = 1

\* C26: twoBitParseRange returns TRUE with the parsed file, seqName, start
\* and end for file:seqName:start-end, and TRUE with start = end = 0 for
\* file:seqName; whenever it returns FALSE, for want of a ':' after the
\* final path component or for a malformed start-end, it leaves *retFile =
\* rangeSpec and *retSeq = NULL.
C26_ParseRange ==
    call.op = "twoBitParseRange" =>
        /\ ParsedAsClaimed(call)
        /\ ~call.result => call.retSeq = NULL

\* C26, as far as it holds: the two forms are parsed as said and *retFile is
\* rangeSpec; when FALSE is returned, *retSeq is NULL only if the final path
\* component has no ':', and otherwise points to the sequence name in the
\* buffer, which is cut at the ':' before it.
C26_ParseRangeKeepsSeq ==
    call.op = "twoBitParseRange" =>
        /\ ParsedAsClaimed(call)
        /\ ~call.result =>
               /\ call.retSeq = NULL <=> ~HasSeqName(call.rangeSpec)
               /\ call.retSeq = NULL => call.buf = call.rangeSpec
               /\ call.retSeq # NULL => call.buf[call.retSeq - 1] = 0

\* C26 witness: a:a:1-1 was parsed into file a, sequence a, start 1, end 1.
C26_WitnessLongForm ==
    /\ call.op = "twoBitParseRange"
    /\ call.rangeSpec = <<97, 58, 97, 58, 49, 45, 49>>
    /\ call.result
    /\ call.retStart = 1
    /\ call.retEnd = 1
    /\ StringAt(call.buf, call.retSeq) = <<97>>

\* C26 witness of the malformed range: a:a:1 gave FALSE with *retSeq
\* pointing to the sequence name.
C26_WitnessSeqLeft ==
    /\ call.op = "twoBitParseRange"
    /\ call.rangeSpec = <<97, 58, 97, 58, 49>>
    /\ ~call.result
    /\ call.retSeq = 3
    /\ StringAt(call.buf, call.retSeq) = <<97>>
    /\ StringAt(call.buf, call.retFile) = <<97>>

----------------------------------------------------------------------------
(* The TrackHub object of test_trackhub: the fields of the hub file with   *)
(* their accessors and replacement methods                                 *)

Fields == {"hub", "shortLabel", "longLabel", "genomeFile", "email", "descriptionUrl"}

\* the fields of the hub the test opens
CorrectFields ==
    [hub |-> "test_hub", shortLabel |-> "test_hub", longLabel |-> "test_hub",
     genomeFile |-> "genomes.txt", email |-> "user@domain.com",
     descriptionUrl |-> "http://www.somedomain.com/articles/h19"]

\* the values the test assigns
NewFields ==
    [hub |-> "new_hub", shortLabel |-> "new_hub", longLabel |-> "new_hub",
     genomeFile |-> "newfile.txt", email |-> "new@domail.com",
     descriptionUrl |-> "http://newdomail.com/articles/hg19"]

\* a replacement method of shortLabel that writes the field hub
SlotOfShared(f) == IF f = "shortLabel" THEN "hub" ELSE f

\* the field of the object behind the accessor f and its replacement method
SlotOf(f) == f

\* f(th) <- value
Replace(f, value) ==
    /\ th' = [th EXCEPT ![SlotOf(f)] = value]
    /\ call' = [op |-> "replace", field |-> f, value |-> value, was |-> th[f]]
    /\ UNCHANGED <<bitsInByte, inittedBitsInByte, vec, list, cacheDir, lf>>
    /\ UNCHANGED udcVars

\* f(th), for the field assigned last
Access(f) ==
    /\ call.op = "replace"
    /\ call.field = f
    /\ call' = [op |-> "access", field |-> f, value |-> call.value,
                was |-> call.was, result |-> th[f]]
    /\ UNCHANGED <<bitsInByte, inittedBitsInByte, vec, list, otherVars>>
    /\ UNCHANGED udcVars

InitHub ==
    /\ UdcUnused
    /\ bitsInByte = bitsInByteZero
    /\ inittedBitsInByte = FALSE
    /\ vec = NoVec
    /\ list = <<>>
    /\ cacheDir = <<>>
    /\ th = CorrectFields
    /\ lf = <<>>
    /\ call = NoCall

NextHub ==
    \/ \E f \in Fields : \E value \in {CorrectFields[f], NewFields[f]} : Replace(f, value)
    \/ \E f \in Fields : Access(f)

SpecHub == InitHub /\ [][NextHub]_vars

C27_WitnessNew ==
    /\ call.op = "access"
    /\ call.field = "email"
    /\ call.was = CorrectFields.email
    /\ call.result = NewFields.email

----------------------------------------------------------------------------
(* linefile.c: lineFileNext, lineFileReuse and lineFileReadAll on a file   *)
(* descriptor.  lf holds the fields of struct lineFile, the buffer as a    *)
(* sequence whose element i + 1 is buf[i], the bytes of the file and the   *)
(* offset of the descriptor in it; zTerm is FALSE                          *)

MaxFileLen == 4
MaxBufSize == 3
MaxChunk == 2

\* the characters '\n' and '\r'
LineFeed == 10
CarriageReturn == 13

\* lineFileAttach, with a buffer of bufSize + 1 bytes instead of 64K + 1
lineFileAttach(file, bufSize) ==
    [file |-> file, pos |-> 0, bufSize |-> bufSize,
     buf |-> [i \in 1..(bufSize + 1) |-> 0], bytesInBuf |-> 0,
     lineIx |-> 0, lineStart |-> 0, lineEnd |-> 0, nlType |-> "nlt_undet",
     reuse |-> FALSE, outside |-> FALSE]

\* buf[i], 0 where i is outside of the buffer
BufAt(buf, i) == IF i >= 0 /\ i < Len(buf) THEN buf[i + 1] ELSE 0

\* determineNlType: the scan from buf + c to buf + end
RECURSIVE determineNlTypeScan(_, _, _)
determineNlTypeScan(buf, c, end) ==
    IF ~(c < end) THEN "nlt_unix"
    ELSE IF BufAt(buf, c) = CarriageReturn
         THEN IF c + 1 < end /\ BufAt(buf, c + 1) = LineFeed
              THEN "nlt_dos" ELSE "nlt_mac"
         ELSE IF BufAt(buf, c) = LineFeed THEN "nlt_unix"
              ELSE determineNlTypeScan(buf, c + 1, end)

\* determineNlType(lf, buf + from, size): the nlType it leaves
determineNlType(nlType, buf, from, size) ==
    IF size = 0 \/ nlType # "nlt_undet" THEN nlType
    ELSE determineNlTypeScan(buf, from, from + size)

\* the for loops that look for the end of the line from index from
RECURSIVE EndOfLineFrom(_, _, _, _)
EndOfLineFrom(buf, endIx, bytesInBuf, terminator) ==
    IF ~(endIx < bytesInBuf) THEN [endIx |-> endIx, gotLf |-> FALSE]
    ELSE IF BufAt(buf, endIx) = terminator THEN [endIx |-> endIx + 1, gotLf |-> TRUE]
         ELSE EndOfLineFrom(buf, endIx + 1, bytesInBuf, terminator)

\* switch(lf->nlType): endIx is kept when the type is not determined
EndOfLine(nlType, buf, endIx, from, bytesInBuf) ==
    IF nlType = "nlt_undet" THEN [endIx |-> endIx, gotLf |-> FALSE]
    ELSE EndOfLineFrom(buf, from, bytesInBuf,
                       IF nlType = "nlt_mac" THEN CarriageReturn ELSE LineFeed)

\* lineFileLongNetRead: the bytes read when every read() gives at most chunk
\* bytes and 0 at the end of the file
RECURSIVE lineFileLongNetRead(_, _, _)
lineFileLongNetRead(left, size, chunk) ==
    IF ~(size > 0) THEN 0
    ELSE LET oneSize == Min(Min(chunk, size), left)
         IN  IF oneSize <= 0 THEN 0
             ELSE oneSize + lineFileLongNetRead(left - oneSize, size - oneSize, chunk)

\* memmove(buf, buf+oldEnd, sizeLeft)
MoveToFront(buf, oldEnd, sizeLeft) ==
    [i \in 1..Len(buf) |-> IF i <= sizeLeft THEN buf[oldEnd + i] ELSE buf[i]]

\* the bytes read from the file at pos, stored from buf + at
Stored(buf, at, file, pos, readSize) ==
    [i \in 1..Len(buf) |->
        IF i > at /\ i <= at + readSize THEN file[pos + (i - at)] ELSE buf[i]]

\* lineFileExpandBuf that copies nothing to the new buffer
lineFileExpandBufEmpty(buf, bytesInBuf, newSize) == [i \in 1..newSize |-> 0]

\* lineFileExpandBuf: needMoreMem copies bytesInBuf bytes to newSize bytes
lineFileExpandBuf(buf, bytesInBuf, newSize) ==
    [i \in 1..newSize |-> IF i <= bytesInBuf THEN buf[i] ELSE 0]

\* lineFileNext: the body of while (!gotLf), with the local endIx
RECURSIVE lineFileNextRead(_, _, _)
lineFileNextRead(f, endIx, chunk) ==
    LET oldEnd == f.lineEnd
        sizeLeft == f.bytesInBuf - oldEnd
        moved == IF oldEnd > 0 /\ sizeLeft > 0
                 THEN MoveToFront(f.buf, oldEnd, sizeLeft) ELSE f.buf
        readSize == lineFileLongNetRead(Len(f.file) - f.pos, f.bufSize - sizeLeft, chunk)
        outside == f.outside \/ (readSize > 0 /\ (sizeLeft < 0 \/ sizeLeft + readSize > Len(f.buf)))
    IN  IF readSize = 0 /\ endIx > oldEnd
        THEN [lf |-> [f EXCEPT !.buf = IF sizeLeft < Len(moved)
                                        THEN [moved EXCEPT ![sizeLeft + 1] = 0]
                                        ELSE moved,
                               !.outside = outside \/ ~(sizeLeft < Len(moved)),
                               !.bytesInBuf = 0, !.lineStart = 0,
                               !.lineEnd = sizeLeft, !.lineIx = f.lineIx + 1],
              result |-> TRUE, retStart |-> 0, retSize |-> sizeLeft]
        ELSE IF readSize <= 0
        THEN [lf |-> [f EXCEPT !.buf = moved, !.bytesInBuf = 0, !.lineStart = 0,
                               !.lineEnd = 0],
              result |-> FALSE, retStart |-> 0, retSize |-> 0]
        ELSE LET bytesInBuf == readSize + sizeLeft
                 filled == IF outside THEN moved
                           ELSE Stored(moved, sizeLeft, f.file, f.pos, readSize)
                 nlType == determineNlType(f.nlType, filled, endIx, bytesInBuf)
                 eol == EndOfLine(nlType, filled, endIx, sizeLeft, bytesInBuf)
                 full == ~eol.gotLf /\ bytesInBuf = f.bufSize
                 g == [f EXCEPT !.pos = f.pos + readSize, !.outside = outside,
                                !.bytesInBuf = bytesInBuf, !.lineEnd = 0,
                                !.nlType = nlType,
                                !.bufSize = IF full THEN f.bufSize * 2 ELSE f.bufSize,
                                !.buf = IF full
                                        THEN lineFileExpandBuf(filled, bytesInBuf,
                                                               f.bufSize * 2)
                                        ELSE filled]
             IN  IF eol.gotLf
                 THEN [lf |-> [g EXCEPT !.lineStart = 0, !.lineEnd = eol.endIx,
                                        !.lineIx = f.lineIx + 1],
                       result |-> TRUE, retStart |-> 0, retSize |-> eol.endIx]
                 ELSE lineFileNextRead(g, eol.endIx, chunk)

\* lineFileNext(lf, &retStart, &retSize): the lineFile it leaves, the value
\* returned, and the line as an offset in buf and a size
lineFileNext(f, chunk) ==
    IF f.reuse
    THEN [lf |-> [f EXCEPT !.reuse = FALSE], result |-> TRUE,
          retStart |-> f.lineStart, retSize |-> f.lineEnd - f.lineStart]
    ELSE LET nlType == determineNlType(f.nlType, f.buf, f.lineEnd, f.bytesInBuf)
             eol == EndOfLine(nlType, f.buf, f.lineEnd, f.lineEnd, f.bytesInBuf)
             g == [f EXCEPT !.nlType = nlType]
         IN  IF eol.gotLf
             THEN [lf |-> [g EXCEPT !.lineStart = f.lineEnd, !.lineEnd = eol.endIx,
                                    !.lineIx = f.lineIx + 1],
                   result |-> TRUE, retStart |-> f.lineEnd,
                   retSize |-> eol.endIx - f.lineEnd]
             ELSE lineFileNextRead(g, eol.endIx, chunk)

\* lineFileReuse that leaves the lineFile as it is
lineFileReuseNot(f) == f

\* lineFileReuse
lineFileReuse(f) == [f EXCEPT !.reuse = TRUE]

\* the bytes of a line in the buffer
LineOf(f, retStart, retSize) ==
    [i \in 1..retSize |-> BufAt(f.buf, retStart + i - 1)]

\* lineFileReadAll: the loop, with the lines appended so far and their number
RECURSIVE lineFileReadAllFrom(_, _, _, _)
lineFileReadAllFrom(f, dy, lines, chunk) ==
    LET next == lineFileNext(f, chunk)
    IN  IF next.result
        THEN lineFileReadAllFrom(next.lf, dy \o LineOf(next.lf, next.retStart, next.retSize),
                                 lines + 1, chunk)
        ELSE [lf |-> next.lf, string |-> dy, lines |-> lines]

lineFileReadAll(f, chunk) == lineFileReadAllFrom(f, <<>>, 0, chunk)


MaxReuse == 2

\* the characters a, '\n' and '\r'
FileChars == {97, LineFeed, CarriageReturn}

Files == UNION {[1..n -> FileChars] : n \in 0..MaxFileLen}

\* what is known of the lineFileNext made last: none made yet
NoLine == [result |-> FALSE, retStart |-> 0, retSize |-> 0, line |-> <<>>,
           lineIx |-> 0, pos |-> 0, reused |-> FALSE]

InitLines ==
    /\ UdcUnused
    /\ bitsInByte = bitsInByteZero
    /\ inittedBitsInByte = FALSE
    /\ vec = NoVec
    /\ list = <<>>
    /\ cacheDir = <<>>
    /\ th = <<>>
    /\ \E file \in Files, bufSize \in 1..MaxBufSize : lf = lineFileAttach(file, bufSize)
    /\ call = [op |-> "lineFileAttach", out |-> <<>>, count |-> 0, plain |-> TRUE,
               ended |-> FALSE, pending |-> 0, last |-> NoLine]

\* lineFileNext, every read() of which gives at most chunk bytes; out and
\* count are the lines returned so far, a line returned again not counted
CallLineFileNext(chunk) ==
    /\ call.op # "lineFileReadAll" \/ chunk = 1
    /\ \E next \in {lineFileNext(lf, chunk)} :
       LET line == IF next.result THEN LineOf(next.lf, next.retStart, next.retSize)
                   ELSE <<>>
           new == next.result /\ ~lf.reuse
       IN  /\ lf' = next.lf
           /\ call' = [op |-> "lineFileNext", result |-> next.result,
                       retStart |-> next.retStart, retSize |-> next.retSize,
                       line |-> line, reuses |-> call.pending, prev |-> call.last,
                       endedBefore |-> call.ended,
                       out |-> IF new THEN call.out \o line ELSE call.out,
                       count |-> IF new THEN call.count + 1 ELSE call.count,
                       plain |-> call.plain, ended |-> call.ended \/ ~next.result,
                       pending |-> 0,
                       last |-> [result |-> next.result, retStart |-> next.retStart,
                                 retSize |-> next.retSize, line |-> line,
                                 lineIx |-> next.lf.lineIx, pos |-> next.lf.pos,
                                 reused |-> lf.reuse]]
    /\ UNCHANGED <<bitsInByte, inittedBitsInByte, vec, list, cacheDir, th>>
    /\ UNCHANGED udcVars

CallLineFileReuse ==
    /\ call.op \in {"lineFileNext", "lineFileReuse"}
    /\ call.last.result
    /\ call.pending < MaxReuse
    /\ lf' = lineFileReuse(lf)
    /\ call' = [op |-> "lineFileReuse", out |-> call.out, count |-> call.count,
                plain |-> FALSE, ended |-> call.ended, pending |-> call.pending + 1,
                last |-> call.last]
    /\ UNCHANGED <<bitsInByte, inittedBitsInByte, vec, list, cacheDir, th>>
    /\ UNCHANGED udcVars

CallLineFileReadAll(chunk) ==
    /\ call.op # "lineFileReadAll"
    /\ \E all \in {lineFileReadAll(lf, chunk)} :
           /\ lf' = all.lf
           /\ call' = [op |-> "lineFileReadAll", string |-> all.string,
                       reuses |-> call.pending, outBefore |-> call.out,
                       out |-> call.out \o all.string,
                       count |-> call.count + all.lines, plain |-> call.plain,
                       ended |-> TRUE, pending |-> 0,
                       last |-> [call.last EXCEPT !.result = FALSE, !.reused = FALSE]]
    /\ UNCHANGED <<bitsInByte, inittedBitsInByte, vec, list, cacheDir, th>>
    /\ UNCHANGED udcVars

NextLines ==
    \/ \E chunk \in 1..MaxChunk : CallLineFileNext(chunk)
    \/ CallLineFileReuse
    \/ \E chunk \in 1..MaxChunk : CallLineFileReadAll(chunk)

SpecLines == InitLines /\ [][NextLines]_vars

\* a is the beginning of b
IsPrefix(a, b) == Len(a) <= Len(b) /\ SubSeq(b, 1, Len(a)) = a

\* the character that ends the lines of the file
Terminator == IF lf.nlType = "nlt_mac" THEN CarriageReturn ELSE LineFeed

\* the line ends at the first terminator after its start, or at the end of
\* the file
IsOneLine(line, atEnd) ==
    /\ line # <<>>
    /\ \A i \in 1..(Len(line) - 1) : line[i] # Terminator
    /\ line[Len(line)] = Terminator \/ atEnd

\* C28: after lineFileNext returned a line L, one or more calls of
\* lineFileReuse make the next lineFileNext return L again, with the same
\* start pointer and size, without reading input and without advancing
\* lineIx, exactly once: the lineFileNext after that returns the line that
\* follows L in the file, or FALSE if L was the last.
C28_ReuseReturnsTheLineAgain ==
    call.op = "lineFileNext" =>
        /\ (call.reuses > 0 /\ call.prev.result) =>
               /\ call.result
               /\ call.retStart = call.prev.retStart
               /\ call.retSize = call.prev.retSize
               /\ call.line = call.prev.line
               /\ lf.lineIx = call.prev.lineIx
               /\ lf.pos = call.prev.pos
               /\ ~lf.reuse
        /\ (call.reuses = 0 /\ call.prev.reused) =>
               /\ ~call.last.reused
               /\ IsPrefix(call.out, lf.file)
               /\ IF call.result
                  THEN /\ lf.lineIx = call.prev.lineIx + 1
                       /\ Len(call.out) > Len(call.line)
                       /\ SubSeq(call.out, Len(call.out) - Len(call.line) - Len(call.prev.line) + 1,
                                 Len(call.out) - Len(call.line)) = call.prev.line
                       /\ IsOneLine(call.line, call.out = lf.file)
                  ELSE call.out = lf.file

\* C28 witness: a line was returned, reused twice and returned again, and
\* the call after that returned the line after it, which filled a buffer
\* that was read in between.
C28_Witness ==
    /\ call.op = "lineFileNext"
    /\ call.reuses = 0
    /\ call.prev.reused
    /\ call.result
    /\ call.prev.line = <<97, LineFeed>>
    /\ call.line = <<97, 97>>
    /\ lf.pos > call.prev.pos

\* C28 witness of the call in between: the line was returned again after
\* two calls of lineFileReuse.
C28_WitnessAgain ==
    /\ call.op = "lineFileNext"
    /\ call.reuses = 2
    /\ call.result
    /\ call.line = <<97, LineFeed>>
    /\ call.prev.line = call.line
    /\ call.count = 1

\* C29: for any input, any initial buffer size and any chunking of read(),
\* with zTerm false and no seek or reuse, the lines successive calls of
\* lineFileNext return are, one after the other, the bytes of the input,
\* the last line without a terminator included; lineIx is the number of
\* lines returned; once FALSE was returned every later call returns FALSE;
\* and lineFileReadAll returns exactly the remainder not yet read.
C29_LinesAreTheInput ==
    call.plain =>
        /\ IsPrefix(call.out, lf.file)
        /\ ~lf.outside
        /\ lf.lineIx = call.count
        /\ call.op = "lineFileNext" =>
               /\ call.result => IsOneLine(call.line, call.out = lf.file)
               /\ ~call.result => call.out = lf.file
               /\ call.endedBefore => ~call.result
        /\ call.op = "lineFileReadAll" =>
               call.outBefore \o call.string = lf.file

\* C29 witness: a file of two lines, the second without a terminator, read
\* through a buffer of one byte: both lines were returned, then FALSE twice.
C29_Witness ==
    /\ call.op = "lineFileNext"
    /\ call.plain
    /\ lf.file = <<97, 97, LineFeed, 97>>
    /\ lf.bufSize > 1
    /\ call.count = 2
    /\ call.out = lf.file
    /\ call.endedBefore
    /\ ~call.result

\* C29 witness of lineFileReadAll: after one line was returned the rest of
\* the file, two more lines, was returned as one string.
C29_WitnessReadAll ==
    /\ call.op = "lineFileReadAll"
    /\ call.plain
    /\ call.count = 3
    /\ call.string = <<97, LineFeed, 97>>
    /\ call.outBefore = <<LineFeed>>

----------------------------------------------------------------------------
(* bits.c: bitSetOne and bitClearOne, and single calls of them and of      *)
(* bitSetRange on bit arrays of every content                              *)

\* bitClearOne without the complement of the mask
bitClearOneMasked(b, bitIx) ==
    [b EXCEPT ![(bitIx \div 8) + 1] = BitAnd(@, oneBit[(bitIx % 8) + 1])]

\* b[bitIx>>3] |= oneBit[bitIx&7]
bitSetOne(b, bitIx) ==
    [b EXCEPT ![(bitIx \div 8) + 1] = BitOr(@, oneBit[(bitIx % 8) + 1])]

\* b[bitIx>>3] &= ~oneBit[bitIx&7]
bitClearOne(b, bitIx) ==
    [b EXCEPT ![(bitIx \div 8) + 1] = BitAnd(@, 255 - oneBit[(bitIx % 8) + 1])]

CallBitSetOne(bitIx) ==
    /\ vec' = [vec EXCEPT !.b = bitSetOne(vec.b, bitIx)]
    /\ call' = [op |-> "bitSetOne", bitIx |-> bitIx, before |-> vec.b]
    /\ UNCHANGED <<bitsInByte, inittedBitsInByte, list, otherVars>>
    /\ UNCHANGED udcVars

CallBitClearOne(bitIx) ==
    /\ vec' = [vec EXCEPT !.b = bitClearOne(vec.b, bitIx)]
    /\ call' = [op |-> "bitClearOne", bitIx |-> bitIx, before |-> vec.b]
    /\ UNCHANGED <<bitsInByte, inittedBitsInByte, list, otherVars>>
    /\ UNCHANGED udcVars

NextOps ==
    \/ /\ call.op = "given"
       /\ \E bitIx \in 0..(vec.n - 1) : CallBitSetOne(bitIx)
    \/ /\ call.op = "given"
       /\ \E bitIx \in 0..(vec.n - 1) : CallBitClearOne(bitIx)
    \/ /\ call.op = "given"
       /\ \E s \in 0..(vec.n - 1) : \E c \in (-1)..(vec.n - s) : CallBitSetRange(s, c)

SpecOps == InitFind /\ [][NextOps]_vars

\* the bits of a bit array, those after bit n - 1 in its last byte included
AllBits(b) == 0..(8 * Len(b) - 1)

\* the bits a call is about
Target ==
    IF call.op = "bitSetRange"
    THEN {j \in AllBits(call.before) :
              call.startIx <= j /\ j < call.startIx + call.bitCount}
    ELSE {call.bitIx}

\* C30: bitSetRange, bitSetOne and bitClearOne change no bit outside their
\* target: every bit outside [startIx, startIx+bitCount), or other than
\* bitIx, reads the same before and after, the other bits of a partial first
\* or last byte included; bitSetRange writes no byte beyond endIx>>3 and
\* never clears a bit that was set.
C30_NothingOutsideTheTarget ==
    call.op \in {"bitSetRange", "bitSetOne", "bitClearOne"} =>
        /\ Len(vec.b) = Len(call.before)
        /\ \A j \in AllBits(call.before) \ Target :
               BitIsSet(vec.b, j) = BitIsSet(call.before, j)
        /\ call.op = "bitSetOne" => BitIsSet(vec.b, call.bitIx)
        /\ call.op = "bitClearOne" => ~BitIsSet(vec.b, call.bitIx)
        /\ call.op = "bitSetRange" =>
               /\ \A i \in DOMAIN vec.b :
                      (i - 1 > (call.startIx + call.bitCount - 1) \div 8
                          \/ i - 1 < call.startIx \div 8
                          \/ call.bitCount <= 0)
                      => vec.b[i] = call.before[i]
               /\ \A j \in AllBits(call.before) :
                      BitIsSet(call.before, j) => BitIsSet(vec.b, j)
               /\ \A j \in Target : BitIsSet(vec.b, j)

\* C30 witness: bitSetRange set bits 3 to 9 of an array whose first two
\* bytes were 10100101: bits 0 and 2 before and bits 13 and 15 after the
\* range are still set, bits 1 and 10 still clear, and bits were set.
C30_Witness ==
    /\ call.op = "bitSetRange"
    /\ call.startIx = 3
    /\ call.bitCount = 7
    /\ Len(vec.b) = 3
    /\ call.before[1] = 165 /\ call.before[2] = 165
    /\ vec.b[1] = 191 /\ vec.b[2] = 229
    /\ vec.b[3] = call.before[3]

\* C30 witness of bitClearOne: bit 5 of a byte 10100101 was cleared and the
\* byte is 10100001.
C30_WitnessClearOne ==
    /\ call.op = "bitClearOne"
    /\ call.bitIx = 5
    /\ call.before[1] = 165
    /\ vec.b[1] = 161

\* C30 witness of bitSetOne: bit 9 of an array was set in a second byte
\* 00000001 and the byte is 01000001.
C30_WitnessSetOne ==
    /\ call.op = "bitSetOne"
    /\ call.bitIx = 9
    /\ call.before[2] = 1
    /\ vec.b[2] = 65

=============================================================================
